---------------------------- MODULE Spec2Model ----------------------------
(***************************************************************************)
(* Reconciliation engine of furina-sync.                                   *)
(*                                                                         *)
(* Two builds of syncIncidents exist in the repository and both are        *)
(* modelled; the variable `variant` says which one a behaviour runs:       *)
(*   "eval"   src/main.go            (AI evaluation, numWorkers = 3)       *)
(*   "plain"  src/unnamed/part_002   (renotify interval, numWorkers = 5)   *)
(*                                                                         *)
(* The collaborators (Jira, Discord, MySQL, the evaluator, the file        *)
(* system) are modelled by their effect on the state plus a                *)
(* nondeterministic success/failure outcome for every call.                *)
(***************************************************************************)
EXTENDS Integers, Sequences, FiniteSets, Bags, TLC

(***************************************************************************)
(* Bounds of the model                                                     *)
(***************************************************************************)
\* Number of cycles a behaviour runs.
MaxCycles == 2
\* Number of collaborator calls that fail in a behaviour.
MaxFailures == 1
\* Last instant of the wall clock, in minutes.
MaxTime == 2
\* Incidents of a large snapshot beyond the number of workers.
MaxExtra == 1

KeyList == <<"K1", "K2">>
Keys == {KeyList[i] : i \in 1..Len(KeyList)}
Assignees == {"A1", "A2"}
\* Jira "updated" timestamps, in half seconds: 0.0 s, 0.5 s and 1.0 s.
UpdatedVals == {0, 1, 2}
\* Values of DISCORD_RENOTIFY_INTERVAL_MINUTES explored.
RenotifyIntervals == {1}

\* cfg.Discord.Channels: assignee -> channel id.
Channels == ("A1" :> "ch1") @@ ("A2" :> "ch2")

numWorkersEval == 3
numWorkersPlain == 5

VARIABLES
    variant,                  \* which build runs
    renotifyIntervalMinutes,  \* cfg.Discord.RenotifyIntervalMinutes
    now,                      \* wall clock, in minutes
    db,                       \* table discord_messages: set of rows
    evals,                    \* table incident_evaluations: key -> jira_updated_at
    files,                    \* storage: set of <<key, assignee>> with a JSON file
    discord,                  \* live messages in the channels
    pc,                       \* position of syncIncidents' own goroutine
    incidents,                \* snapshot of the cycle (sequence)
    lastKeys,                 \* keys of the last fetched snapshot (history)
    lastSnap,                 \* the last fetched snapshot (history)
    decided,                  \* the decisions taken so far (history)
    tickPending,              \* ticker.C holds a tick (a channel of capacity 1)
    messageCache,             \* rows loaded by GetMessagesByKeys
    evalCache,                \* rows loaded by GetEvaluationsByKeys
    cacheFailed,              \* which of the two cache loads failed this cycle
    enq,                      \* number of incidents already enqueued
    jobs, jobsClosed,         \* channel jobs
    results, resultsClosed,   \* channel results
    wk,                       \* workers: position and locals
    tally,                    \* newCount, evaluated/renotified, skipped, error
    summary,                  \* last end-of-cycle log line
    trace,                    \* effects of the current cycle (history)
    cycles,                   \* cycles started so far
    failures                  \* collaborator calls that failed so far

vars == <<variant, renotifyIntervalMinutes, now, db, evals, files, discord,
          pc, incidents, lastKeys, lastSnap, decided, tickPending, messageCache,
          evalCache,
          cacheFailed, enq, jobs, jobsClosed, results, resultsClosed, wk,
          tally, summary, trace, cycles, failures>>

\* A pool that gets a worker more for each incident beyond its size.
numWorkersGrown ==
    (IF variant = "eval" THEN numWorkersEval ELSE numWorkersPlain) + MaxExtra

numWorkers == IF variant = "eval" THEN numWorkersEval ELSE numWorkersPlain
Workers == 1..numWorkers

(***************************************************************************)
(* Values                                                                  *)
(***************************************************************************)
NoIncident == [Key |-> "", Assignee |-> "", UpdatedDate |-> 0]
\* nil *database.MessageToDelete
NoMsg == [incident_key |-> "", assignee |-> "", channel_id |-> "",
          message_id |-> 0, last_notification |-> 0]
NoResult == [isNew |-> FALSE, acted |-> FALSE, skipped |-> FALSE,
             hasError |-> FALSE]
IdleWorker == [pc |-> "idle", incident |-> NoIncident, existingMsg |-> NoMsg,
               r |-> NoResult, messageID |-> 0]
ZeroTally == [new |-> 0, acted |-> 0, skipped |-> 0, errors |-> 0]
NoSummary == [logged |-> FALSE, ok |-> TRUE, errors |-> 0]
\* The persistent state outside the process: both tables, the files and the
\* channel.
NoStore == [db |-> {}, evals |-> << >>, files |-> {}, discord |-> {}]
\* What the current cycle has done so far.
NoTrace == [fetchFailed |-> FALSE,
            evalCalls |-> {},          \* keys handed to the evaluator
            sendCalls |-> {},          \* keys a send was issued for
            sent |-> {},               \* messages delivered
            deleteCalls |-> {},        \* keys a worker issued a sink delete for
            failedCalls |-> {},        \* <<call, key>> of the worker calls that failed
            erroredKeys |-> {},        \* keys whose result carries hasError
            skippedKeys |-> {},        \* keys whose result carries skipped
            saves |-> EmptyBag,        \* <<key, assignee>> of the files written
            taken |-> EmptyBag,        \* keys of the jobs received by the workers
            emitted |-> EmptyBag,      \* keys of the results sent by the workers
            drained |-> 0,             \* results read by `range results`
            before |-> NoStore,        \* store and channel when the cycle began
            prevKeys |-> {},           \* keys of the snapshot of the cycle before
            prevSnap |-> << >>,        \* the snapshot of the cycle before
            cleanupRan |-> FALSE,
            listed |-> {},             \* rows the cleanup pass listed
            cleanupDeletes |-> EmptyBag,  \* sink deletes of the cleanup pass
            cleanupStoreOk |-> FALSE,  \* every store call of the pass succeeded
            cleanupSinkOk |-> FALSE,   \* every sink delete of the pass succeeded
            cleanupSinkFailed |-> {},  \* rows whose sink delete failed
            cleanupStoreFailed |-> {}] \* rows whose store delete failed

Range(s) == {s[i] : i \in 1..Len(s)}
KeysOf(s) == {s[i].Key : i \in 1..Len(s)}

\* The issues the tracker can report for a key: the first key with every
\* assignee and every updated timestamp, the others with the first assignee
\* and the first timestamp only.
IssuesOf(k) ==
    IF k = KeyList[1]
    THEN [Key : {k}, Assignee : Assignees, UpdatedDate : UpdatedVals]
    ELSE [Key : {k}, Assignee : {"A1"}, UpdatedDate : {0}]

RECURSIVE SnapshotOf(_, _)
\* The list GetIncidents returns for a choice f of the issues present, in
\* key order.
SnapshotOf(f, i) ==
    IF i > Len(KeyList) THEN << >>
    ELSE (IF f[KeyList[i]] = NoIncident THEN << >> ELSE <<f[KeyList[i]]>>)
         \o SnapshotOf(f, i + 1)

\* Every snapshot the tracker can return: distinct keys.
Snapshots ==
    LET Choice == {f \in [Keys -> {NoIncident} \cup UNION {IssuesOf(k) : k \in Keys}] :
                     \A k \in Keys : f[k] = NoIncident \/ f[k] \in IssuesOf(k)}
    IN  {SnapshotOf(f, 1) : f \in Choice}

(***************************************************************************)
(* Timestamps.  Jira's are counted in half seconds, the wall clock in      *)
(* minutes.                                                                *)
(***************************************************************************)
\* time.Time.Unix(): the whole seconds of a timestamp.
Unix(t) == t \div 2

\* The timestamp cut to its whole second, and rounded to the nearest second.
TruncateToSecond(t) == Unix(t) * 2
RoundToSecond(t) == Unix(t + 1) * 2

\* What a DATETIME column (no fractional digits) keeps of a timestamp: the
\* server rounds to the nearest second, or truncates under
\* TIME_TRUNCATE_FRACTIONAL.
DatetimeValues(t) == {TruncateToSecond(t), RoundToSecond(t)}

(***************************************************************************)
(* The relational store (internal/database/mysql.go)                       *)
(***************************************************************************)
Row(key, channelID, messageID, assignee, t) ==
    [incident_key |-> key, assignee |-> assignee, channel_id |-> channelID,
     message_id |-> messageID, last_notification |-> t]

\* Rows of the table that collide with (key, assignee) on the unique key
\* unique_incident_assignee.
Duplicates(table, key, assignee) ==
    {r \in table : r.incident_key = key /\ r.assignee = assignee}

\* The upsert on a table whose unique key is the assignee alone: the row of
\* another incident of the same assignee is replaced.
UpsertMessageByAssignee(table, key, channelID, messageID, assignee, t) ==
    {r \in table : r.assignee # assignee}
        \cup {Row(key, channelID, messageID, assignee, t)}

\* A plain INSERT into a table without the unique key: the row is added
\* whatever the table holds.
InsertMessage(table, key, channelID, messageID, assignee, t) ==
    table \cup {Row(key, channelID, messageID, assignee, t)}

\* INSERT ... ON DUPLICATE KEY UPDATE channel_id, message_id,
\* last_notification = NOW().
UpsertMessage(table, key, channelID, messageID, assignee, t) ==
    IF Duplicates(table, key, assignee) = {}
    THEN table \cup {Row(key, channelID, messageID, assignee, t)}
    ELSE (table \ Duplicates(table, key, assignee))
            \cup {Row(key, channelID, messageID, assignee, t)}

\* DELETE FROM discord_messages WHERE incident_key = ? AND assignee = ?
DeleteMessage(table, key, assignee) ==
    table \ Duplicates(table, key, assignee)

\* SELECT ... FROM discord_messages
GetAllActiveMessages(table) == table

\* SELECT ... WHERE incident_key IN (keys); no query for an empty key list.
GetMessagesByKeys(table, keys) ==
    IF keys = {} THEN {} ELSE {r \in table : r.incident_key \in keys}

\* messageCache[incident.Key+":"+incident.Assignee]; nil when absent.
CacheLookup(cache, key, assignee) ==
    IF Duplicates(cache, key, assignee) = {} THEN NoMsg
    ELSE CHOOSE r \in Duplicates(cache, key, assignee) : TRUE

\* SELECT incident_key, jira_updated_at ... WHERE incident_key IN (keys)
GetEvaluationsByKeys(table, keys) ==
    [k \in (DOMAIN table) \cap keys |-> table[k]]

\* INSERT ... ON DUPLICATE KEY UPDATE jira_updated_at = VALUES(...); `stored`
\* is what the DATETIME column keeps of jiraUpdatedAt.
UpsertEvaluation(table, key, stored) ==
    [k \in (DOMAIN table) \cup {key} |-> IF k = key THEN stored ELSE table[k]]

\* The comparison with > in the place of >=.
ShouldRenotifyStrict(msg, intervalMinutes, t) ==
    IF msg = NoMsg THEN TRUE
    ELSE t - msg.last_notification > intervalMinutes

\* The comparison without the nil check: an absent record reads as one
\* with the zero time.
ShouldRenotifyNoNilCheck(msg, intervalMinutes, t) ==
    t - msg.last_notification >= intervalMinutes

\* time.Since(msg.LastNotification) >= intervalMinutes * time.Minute
ShouldRenotifyFromCache(msg, intervalMinutes, t) ==
    IF msg = NoMsg THEN TRUE
    ELSE t - msg.last_notification >= intervalMinutes

\* The comparison of the full timestamps, without .Unix().
NeedsEvalExact(cache, incident) ==
    \/ incident.Key \notin DOMAIN cache
    \/ cache[incident.Key] # incident.UpdatedDate

\* The test of an evaluator that serves one incident at a time: an incident
\* that arrives while another is being evaluated is left for the next cycle.
NeedsEvalWhenFree(cache, incident) ==
    /\ \/ incident.Key \notin DOMAIN cache
       \/ Unix(cache[incident.Key]) # Unix(incident.UpdatedDate)
    /\ \A w \in Workers : wk[w].pc # "eval"

\* needsEval of the evaluation build: no cached evaluation, or its
\* jira_updated_at and the incident's UpdatedDate differ in whole seconds.
NeedsEval(cache, incident) ==
    \/ incident.Key \notin DOMAIN cache
    \/ Unix(cache[incident.Key]) # Unix(incident.UpdatedDate)

(***************************************************************************)
(* The chat channel (internal/discord/client.go)                           *)
(***************************************************************************)
Message(id, channelID, key, assignee) ==
    [id |-> id, channel |-> channelID, key |-> key, assignee |-> assignee]

IsLive(live, channelID, messageID) ==
    \E m \in live : m.channel = channelID /\ m.id = messageID

\* The id Discord gives a message: ids are opaque and never repeat.  A cycle
\* sends at most one message per key of its snapshot, so the number of the
\* cycle and the key name a message; they are numbered in that order.
KeyIndex(key) == CHOOSE i \in 1..Len(KeyList) : KeyList[i] = key
MessageId(cycle, key) == (cycle - 1) * Len(KeyList) + KeyIndex(key)

\* ChannelMessageDelete: removes the message unless the call fails.
DiscordDelete(live, channelID, messageID, fails) ==
    IF fails THEN live
    ELSE {m \in live : ~(m.channel = channelID /\ m.id = messageID)}

\* GetChannelForAssignee
HasChannel(assignee) == assignee \in DOMAIN Channels

(***************************************************************************)
(* The snapshot files (storage)                                            *)
(***************************************************************************)
\* The test on a store that has lost track of its files.
IncidentExistsNever(fs, key, assignee) == FALSE

IncidentExists(fs, key, assignee) == <<key, assignee>> \in fs

\* The write under a file name made of the key alone.
SaveIncidentByKey(fs, key, assignee, fails) ==
    IF IncidentExists(fs, key, assignee) \/ fails THEN fs
    ELSE fs \cup {<<key, "">>}

\* Writes the file unless it exists already or the write fails.
SaveIncident(fs, key, assignee, fails) ==
    IF IncidentExists(fs, key, assignee) \/ fails THEN fs
    ELSE fs \cup {<<key, assignee>>}

(***************************************************************************)
(* Initial state: a fresh deployment, before the first cycle.              *)
(***************************************************************************)
Init ==
    /\ variant \in {"eval", "plain"}
    /\ renotifyIntervalMinutes \in
          IF variant = "plain" THEN RenotifyIntervals ELSE {0}
    /\ now = 0
    /\ db = {}
    /\ evals = << >>
    /\ files = {}
    /\ discord = {}
    /\ pc = "idle"
    /\ incidents = << >>
    /\ lastKeys = {}
    /\ lastSnap = << >>
    /\ decided = EmptyBag
    /\ tickPending = FALSE
    /\ messageCache = {}
    /\ evalCache = << >>
    /\ cacheFailed = [msg |-> FALSE, eval |-> FALSE]
    /\ enq = 0
    /\ jobs = << >>
    /\ jobsClosed = FALSE
    /\ results = << >>
    /\ resultsClosed = FALSE
    /\ wk = [w \in Workers |-> IdleWorker]
    /\ tally = ZeroTally
    /\ summary = NoSummary
    /\ trace = NoTrace
    /\ cycles = 0
    /\ failures = 0

storeVars == <<db, evals, files, discord>>
CurrentStore == [db |-> db, evals |-> evals, files |-> files, discord |-> discord]
cfgVars == <<variant, renotifyIntervalMinutes>>
chanVars == <<jobs, jobsClosed, results, resultsClosed>>
cacheVars == <<messageCache, evalCache, cacheFailed>>
\* Kept only by the specifications that follow them: the history, and the
\* channel of the ticker.
histVars == <<lastSnap, decided, tickPending>>
orchVars == <<pc, incidents, lastKeys, enq, tally, summary, cycles>>

\* n more collaborator calls may fail.
MayFail(n) == failures + n <= MaxFailures
Failed(n) == failures' = failures + n
One(b) == IF b THEN 1 ELSE 0
\* The trace with a failed worker call noted.
NoteFailure(t, fails, call, key) ==
    IF fails THEN [t EXCEPT !.failedCalls = @ \cup {<<call, key>>}] ELSE t

(***************************************************************************)
(* syncIncidents: the orchestrator's own goroutine                         *)
(***************************************************************************)
\* The snapshots a build distinguishes: the plain build never reads
\* UpdatedDate.
SnapshotsOf(v) ==
    IF v = "eval" THEN Snapshots
    ELSE {s \in Snapshots : \A i \in 1..Len(s) : s[i].UpdatedDate = 0}

\* A syncIncidents that takes a failed GetIncidents for an empty snapshot and
\* goes on.
FetchFailsAsEmpty ==
    /\ pc = "idle"
    /\ cycles < MaxCycles
    /\ MayFail(1)
    /\ Failed(1)
    /\ cycles' = cycles + 1
    /\ incidents' = << >>
    /\ lastKeys' = {}
    /\ messageCache' = {}
    /\ evalCache' = << >>
    /\ cacheFailed' = [msg |-> FALSE, eval |-> FALSE]
    /\ pc' = "produce"
    /\ enq' = 0
    /\ jobs' = << >>
    /\ jobsClosed' = FALSE
    /\ results' = << >>
    /\ resultsClosed' = FALSE
    /\ wk' = [w \in Workers |-> IdleWorker]
    /\ tally' = ZeroTally
    /\ trace' = [NoTrace EXCEPT !.fetchFailed = TRUE, !.prevKeys = lastKeys,
                                !.prevSnap = lastSnap, !.before = CurrentStore]
    /\ UNCHANGED <<cfgVars, histVars, now, storeVars, summary>>

\* jiraClient.GetIncidents() fails: the cycle returns at once.
FetchFailsStep ==
    /\ pc = "idle"
    /\ cycles < MaxCycles
    /\ MayFail(1)
    /\ Failed(1)
    /\ cycles' = cycles + 1
    /\ trace' = [NoTrace EXCEPT !.fetchFailed = TRUE, !.prevKeys = lastKeys,
                                !.prevSnap = lastSnap, !.before = CurrentStore]
    /\ pc' = "done"
    /\ UNCHANGED <<cfgVars, now, storeVars, incidents, lastKeys, cacheVars, enq,
                   chanVars, wk, tally, summary>>

FetchFails == FetchFailsStep /\ UNCHANGED histVars

\* The step of a main that starts syncIncidents in a goroutine of its own for
\* every tick, whether the cycle before has returned or not.
StartCycleAnyTime ==
    /\ cycles < MaxCycles
    /\ \E snap \in SnapshotsOf(variant), msgOk \in BOOLEAN, evalOk \in BOOLEAN :
        /\ (Len(snap) = 0 \/ variant = "plain") => evalOk
        /\ Len(snap) = 0 => msgOk
        /\ MayFail(One(~msgOk) + One(~evalOk))
        /\ Failed(One(~msgOk) + One(~evalOk))
        /\ incidents' = snap
        /\ lastKeys' = KeysOf(snap)
        /\ messageCache' = IF msgOk THEN GetMessagesByKeys(db, KeysOf(snap)) ELSE {}
        /\ evalCache' = IF variant = "eval" /\ evalOk
                        THEN GetEvaluationsByKeys(evals, KeysOf(snap)) ELSE << >>
        /\ cacheFailed' = [msg |-> ~msgOk, eval |-> ~evalOk]
    /\ cycles' = cycles + 1
    /\ pc' = "produce"
    /\ enq' = 0
    /\ jobs' = << >>
    /\ jobsClosed' = FALSE
    /\ results' = << >>
    /\ resultsClosed' = FALSE
    /\ wk' = [w \in Workers |-> IdleWorker]
    /\ tally' = ZeroTally
    /\ trace' = [NoTrace EXCEPT !.prevKeys = lastKeys, !.prevSnap = lastSnap,
                                !.before = CurrentStore]
    /\ UNCHANGED <<cfgVars, now, storeVars, summary>>

\* The step of a syncIncidents that returns when a cache query fails.
StartCycleAborting ==
    /\ pc = "idle"
    /\ cycles < MaxCycles
    /\ \E snap \in SnapshotsOf(variant), msgOk \in BOOLEAN, evalOk \in BOOLEAN :
        /\ (Len(snap) = 0 \/ variant = "plain") => evalOk
        /\ Len(snap) = 0 => msgOk
        /\ MayFail(One(~msgOk) + One(~evalOk))
        /\ Failed(One(~msgOk) + One(~evalOk))
        /\ incidents' = snap
        /\ lastKeys' = KeysOf(snap)
        /\ messageCache' = IF msgOk THEN GetMessagesByKeys(db, KeysOf(snap)) ELSE {}
        /\ evalCache' = IF variant = "eval" /\ evalOk
                        THEN GetEvaluationsByKeys(evals, KeysOf(snap)) ELSE << >>
        /\ cacheFailed' = [msg |-> ~msgOk, eval |-> ~evalOk]
        /\ pc' = IF msgOk /\ evalOk THEN "produce" ELSE "done"
    /\ cycles' = cycles + 1
    /\ enq' = 0
    /\ jobs' = << >>
    /\ jobsClosed' = FALSE
    /\ results' = << >>
    /\ resultsClosed' = FALSE
    /\ wk' = [w \in Workers |-> IdleWorker]
    /\ tally' = ZeroTally
    /\ trace' = [NoTrace EXCEPT !.prevKeys = lastKeys, !.prevSnap = lastSnap,
                                !.before = CurrentStore]
    /\ UNCHANGED <<cfgVars, now, storeVars, summary>>

\* GetIncidents succeeds; both caches are loaded (a failed load leaves an
\* empty cache); channels are made and the workers started.
StartCycleStep ==
    /\ pc = "idle"
    /\ cycles < MaxCycles
    /\ \E snap \in SnapshotsOf(variant), msgOk \in BOOLEAN, evalOk \in BOOLEAN :
        /\ (Len(snap) = 0 \/ variant = "plain") => evalOk
        /\ Len(snap) = 0 => msgOk
        /\ MayFail(One(~msgOk) + One(~evalOk))
        /\ Failed(One(~msgOk) + One(~evalOk))
        /\ incidents' = snap
        /\ lastKeys' = KeysOf(snap)
        /\ messageCache' = IF msgOk THEN GetMessagesByKeys(db, KeysOf(snap)) ELSE {}
        /\ evalCache' = IF variant = "eval" /\ evalOk
                        THEN GetEvaluationsByKeys(evals, KeysOf(snap)) ELSE << >>
        /\ cacheFailed' = [msg |-> ~msgOk, eval |-> ~evalOk]
    /\ cycles' = cycles + 1
    /\ pc' = "produce"
    /\ enq' = 0
    /\ jobs' = << >>
    /\ jobsClosed' = FALSE
    /\ results' = << >>
    /\ resultsClosed' = FALSE
    /\ wk' = [w \in Workers |-> IdleWorker]
    /\ tally' = ZeroTally
    /\ trace' = [NoTrace EXCEPT !.prevKeys = lastKeys, !.prevSnap = lastSnap,
                                !.before = CurrentStore]
    /\ UNCHANGED <<cfgVars, now, storeVars, summary>>

StartCycle == StartCycleStep /\ UNCHANGED histVars

\* The same step, with the snapshot noted.
StartCycleNoted ==
    StartCycleStep /\ lastSnap' = incidents' /\ UNCHANGED <<decided, tickPending>>

\* The send on a jobs channel made with room for one job per worker.
EnqueuePerWorker ==
    /\ pc = "produce"
    /\ enq < Len(incidents)
    /\ Len(jobs) < numWorkers
    /\ jobs' = Append(jobs, incidents[enq + 1])
    /\ enq' = enq + 1
    /\ UNCHANGED <<cfgVars, histVars, now, storeVars, pc, incidents, lastKeys, cacheVars,
                   jobsClosed, results, resultsClosed, wk, tally, summary, trace,
                   cycles, failures>>

\* jobs <- inc (buffered channel of capacity len(incidents))
Enqueue ==
    /\ pc = "produce"
    /\ enq < Len(incidents)
    /\ Len(jobs) < Len(incidents)
    /\ jobs' = Append(jobs, incidents[enq + 1])
    /\ enq' = enq + 1
    /\ UNCHANGED <<cfgVars, histVars, now, storeVars, pc, incidents, lastKeys, cacheVars,
                   jobsClosed, results, resultsClosed, wk, tally, summary, trace,
                   cycles, failures>>

\* close(jobs); the goroutine that waits for the workers is started.
CloseJobs ==
    /\ pc = "produce"
    /\ enq = Len(incidents)
    /\ jobsClosed' = TRUE
    /\ pc' = "drain"
    /\ UNCHANGED <<cfgVars, histVars, now, storeVars, incidents, lastKeys, cacheVars, enq,
                   jobs, results, resultsClosed, wk, tally, summary, trace,
                   cycles, failures>>

\* A worker's range over jobs has ended (wg.Done()): it waits for a job and
\* the channel is closed and empty.
Exited(w) == wk[w].pc = "idle" /\ jobsClosed /\ jobs = << >>

\* close(results) without the wg.Wait() before it.
CloseResultsEarly ==
    /\ pc = "drain"
    /\ ~resultsClosed
    /\ resultsClosed' = TRUE
    /\ UNCHANGED <<cfgVars, histVars, now, storeVars, orchVars, cacheVars, jobs, jobsClosed,
                   results, wk, trace, failures>>

\* wg.Wait(); close(results)
CloseResults ==
    /\ pc = "drain"
    /\ ~resultsClosed
    /\ \A w \in Workers : Exited(w)
    /\ resultsClosed' = TRUE
    /\ UNCHANGED <<cfgVars, histVars, now, storeVars, orchVars, cacheVars, jobs, jobsClosed,
                   results, wk, trace, failures>>

\* The loop without its `if r.skipped` branch.
CountNoSkipped(t, r) ==
    [new |-> t.new + One(r.isNew),
     acted |-> t.acted + (IF variant = "eval" THEN One(r.acted)
                           ELSE One(r.acted /\ ~r.isNew)),
     skipped |-> t.skipped,
     errors |-> t.errors + One(r.hasError)]

\* The loop without its `if r.hasError` branch.
CountNoErrors(t, r) ==
    [new |-> t.new + One(r.isNew),
     acted |-> t.acted + (IF variant = "eval" THEN One(r.acted)
                           ELSE One(r.acted /\ ~r.isNew)),
     skipped |-> t.skipped + One(r.skipped),
     errors |-> t.errors]

\* One iteration of `for r := range results`.
Count(t, r) ==
    [new |-> t.new + One(r.isNew),
     acted |-> t.acted + (IF variant = "eval" THEN One(r.acted)
                           ELSE One(r.acted /\ ~r.isNew)),
     skipped |-> t.skipped + One(r.skipped),
     errors |-> t.errors + One(r.hasError)]

Drain ==
    /\ pc = "drain"
    /\ results # << >>
    /\ tally' = Count(tally, Head(results))
    /\ results' = Tail(results)
    /\ trace' = [trace EXCEPT !.drained = @ + 1]
    /\ UNCHANGED <<cfgVars, histVars, now, storeVars, pc, incidents, lastKeys, cacheVars,
                   enq, jobs, jobsClosed, resultsClosed, wk, summary,
                   cycles, failures>>

(***************************************************************************)
(* The workers: `for incident := range jobs { ... }`                       *)
(***************************************************************************)
\* A decision as noted: what the worker decided on and what it decided.
\* worker is the worker's record after the decision.
Decision(worker, cache, t) ==
    [incident |-> worker.incident,
     existingMsg |-> worker.existingMsg,
     cachedEval |-> IF worker.incident.Key \in DOMAIN cache
                    THEN <<cache[worker.incident.Key]>> ELSE << >>,
     now |-> t,
     action |-> IF worker.r.skipped THEN "skip" ELSE "notify"]

\* Where a worker goes once it has decided to notify.
NotifyFrom(existingMsg) == IF existingMsg # NoMsg THEN "delete" ELSE "send"

\* The step with a renotify interval of one minute applied before the
\* staleness test: an incident notified less than a minute ago is skipped.
TakeJobThrottled(w) ==
    /\ wk[w].pc = "idle"
    /\ \A v \in Workers : v < w => wk[v].pc # "idle"
    /\ jobs # << >>
    /\ LET incident == Head(jobs)
           existingMsg == CacheLookup(messageCache, incident.Key, incident.Assignee)
           recent == existingMsg # NoMsg /\ now - existingMsg.last_notification < 1
           skip == variant = "eval" /\ (~NeedsEval(evalCache, incident) \/ recent)
       IN  wk' = [wk EXCEPT ![w] =
                    [pc |-> IF skip THEN "emit" ELSE "save",
                     incident |-> incident,
                     existingMsg |-> existingMsg,
                     r |-> [NoResult EXCEPT !.skipped = skip],
                     messageID |-> 0]]
    /\ jobs' = Tail(jobs)
    /\ trace' = [trace EXCEPT !.taken = @ (+) SetToBag({Head(jobs).Key})]
    /\ UNCHANGED <<cfgVars, now, storeVars, orchVars, cacheVars, jobsClosed,
                   results, resultsClosed, failures>>

\* incident := <-jobs, the two cache lookups and, in the evaluation build,
\* the needsEval decision.  The workers are interchangeable: of the workers
\* waiting for a job, the one of least index gets it.
TakeJobStep(w) ==
    /\ wk[w].pc = "idle"
    /\ \A v \in Workers : v < w => wk[v].pc # "idle"
    /\ jobs # << >>
    /\ LET incident == Head(jobs)
           existingMsg == CacheLookup(messageCache, incident.Key, incident.Assignee)
           skip == variant = "eval" /\ ~NeedsEval(evalCache, incident)
       IN  wk' = [wk EXCEPT ![w] =
                    [pc |-> IF skip THEN "emit" ELSE "save",
                     incident |-> incident,
                     existingMsg |-> existingMsg,
                     r |-> [NoResult EXCEPT !.skipped = skip],
                     messageID |-> 0]]
    /\ jobs' = Tail(jobs)
    /\ trace' = [trace EXCEPT !.taken = @ (+) SetToBag({Head(jobs).Key})]
    /\ UNCHANGED <<cfgVars, now, storeVars, orchVars, cacheVars, jobsClosed,
                   results, resultsClosed, failures>>

TakeJob(w) == TakeJobStep(w) /\ UNCHANGED histVars

\* The same step, with the decision of the evaluation build noted.
TakeJobNoted(w) ==
    /\ TakeJobStep(w)
    /\ decided' = IF variant = "eval"
                  THEN decided (+) SetToBag({Decision(wk'[w], evalCache, now)})
                  ELSE decided
    /\ UNCHANGED <<lastSnap, tickPending>>

\* r.isNew = !store.IncidentExists(...); SaveIncident if new.  The evaluation
\* build only logs a failed save; the plain build reports an error and goes
\* on to the next job, and otherwise takes its renotify decision here.
SaveStep(w) ==
    /\ wk[w].pc = "save"
    /\ \E fails \in BOOLEAN :
        LET incident == wk[w].incident
            isNew == ~IncidentExists(files, incident.Key, incident.Assignee)
            r == [wk[w].r EXCEPT !.isNew = isNew]
        IN  /\ fails => isNew /\ MayFail(1)
            /\ Failed(One(fails))
            /\ trace' = NoteFailure(
                   [trace EXCEPT !.saves =
                       IF isNew /\ ~fails
                       THEN @ (+) SetToBag({<<incident.Key, incident.Assignee>>})
                       ELSE @],
                   fails, "save", incident.Key)
            /\ files' = IF isNew
                        THEN SaveIncident(files, incident.Key, incident.Assignee, fails)
                        ELSE files
            /\ wk' = [wk EXCEPT ![w] =
                  IF variant = "eval"
                  THEN [@ EXCEPT !.pc = "eval", !.r = r]
                  ELSE IF isNew /\ fails
                  THEN [@ EXCEPT !.pc = "emit", !.r = [r EXCEPT !.hasError = TRUE]]
                  ELSE IF ShouldRenotifyFromCache(wk[w].existingMsg,
                                                  renotifyIntervalMinutes, now)
                  THEN [@ EXCEPT !.pc = NotifyFrom(wk[w].existingMsg), !.r = r]
                  ELSE [@ EXCEPT !.pc = "emit", !.r = [r EXCEPT !.skipped = TRUE]]]
    /\ UNCHANGED <<cfgVars, now, db, evals, discord, orchVars, cacheVars,
                   chanVars>>

Save(w) == SaveStep(w) /\ UNCHANGED histVars

\* The same step, with the decision of the plain build noted (none is taken
\* when the save of the snapshot file fails).
SaveNoted(w) ==
    /\ SaveStep(w)
    /\ decided' = IF variant = "plain" /\ ~wk'[w].r.hasError
                  THEN decided (+) SetToBag({Decision(wk'[w], evalCache, now)})
                  ELSE decided
    /\ UNCHANGED <<lastSnap, tickPending>>

\* The evaluation of a worker that notes the failure of the evaluator and
\* goes on to notify all the same.
EvaluateLenient(w) ==
    /\ wk[w].pc = "eval"
    /\ \E ok \in BOOLEAN :
        /\ ~ok => MayFail(1)
        /\ Failed(One(~ok))
        /\ trace' = NoteFailure([trace EXCEPT !.evalCalls = @ \cup {wk[w].incident.Key}],
                                ~ok, "eval", wk[w].incident.Key)
        /\ wk' = [wk EXCEPT ![w] =
                    IF ok THEN [@ EXCEPT !.pc = NotifyFrom(wk[w].existingMsg)]
                    ELSE [@ EXCEPT !.pc = NotifyFrom(wk[w].existingMsg),
                                   !.r.hasError = TRUE]]
    /\ UNCHANGED <<cfgVars, histVars, now, storeVars, orchVars, cacheVars, chanVars>>

\* The evaluation of a worker that marks the incident as evaluated whether
\* the evaluator answered or not.
EvaluateMarking(w) ==
    /\ wk[w].pc = "eval"
    /\ \E ok \in BOOLEAN :
        /\ ~ok => MayFail(1)
        /\ Failed(One(~ok))
        /\ trace' = NoteFailure([trace EXCEPT !.evalCalls = @ \cup {wk[w].incident.Key}],
                                ~ok, "eval", wk[w].incident.Key)
        /\ evals' = IF ok THEN evals
                    ELSE UpsertEvaluation(evals, wk[w].incident.Key,
                                          TruncateToSecond(wk[w].incident.UpdatedDate))
        /\ wk' = [wk EXCEPT ![w] =
                    IF ok THEN [@ EXCEPT !.pc = NotifyFrom(wk[w].existingMsg)]
                    ELSE [@ EXCEPT !.pc = "emit", !.r.hasError = TRUE]]
    /\ UNCHANGED <<cfgVars, histVars, now, db, files, discord, orchVars, cacheVars,
                   chanVars>>

\* evalClient.Evaluate(incident)
Evaluate(w) ==
    /\ wk[w].pc = "eval"
    /\ \E ok \in BOOLEAN :
        /\ ~ok => MayFail(1)
        /\ Failed(One(~ok))
        /\ trace' = NoteFailure([trace EXCEPT !.evalCalls = @ \cup {wk[w].incident.Key}],
                                ~ok, "eval", wk[w].incident.Key)
        /\ wk' = [wk EXCEPT ![w] =
                    IF ok THEN [@ EXCEPT !.pc = NotifyFrom(wk[w].existingMsg)]
                    ELSE [@ EXCEPT !.pc = "emit", !.r.hasError = TRUE]]
    /\ UNCHANGED <<cfgVars, histVars, now, storeVars, orchVars, cacheVars, chanVars>>

\* The delete of a worker that gives its incident up when the delete fails.
DeleteOldOrGiveUp(w) ==
    /\ wk[w].pc = "delete"
    /\ \E fails \in BOOLEAN :
        /\ fails => /\ MayFail(1)
                    /\ IsLive(discord, wk[w].existingMsg.channel_id,
                              wk[w].existingMsg.message_id)
        /\ Failed(One(fails))
        /\ trace' = NoteFailure([trace EXCEPT !.deleteCalls = @ \cup {wk[w].incident.Key}],
                                fails, "delete", wk[w].incident.Key)
        /\ discord' = DiscordDelete(discord, wk[w].existingMsg.channel_id,
                                    wk[w].existingMsg.message_id, fails)
        /\ wk' = [wk EXCEPT ![w] =
                    IF fails THEN [@ EXCEPT !.pc = "emit", !.r.hasError = TRUE]
                    ELSE [@ EXCEPT !.pc = "send"]]
    /\ UNCHANGED <<cfgVars, histVars, now, db, evals, files, orchVars, cacheVars,
                   chanVars>>

\* discordClient.DeleteMessage(existingMsg.ChannelID, existingMsg.MessageID);
\* a failure is only logged.  A delete of a message that is gone changes
\* nothing, failed or not.
DeleteOld(w) ==
    /\ wk[w].pc = "delete"
    /\ \E fails \in BOOLEAN :
        /\ fails => /\ MayFail(1)
                    /\ IsLive(discord, wk[w].existingMsg.channel_id,
                              wk[w].existingMsg.message_id)
        /\ Failed(One(fails))
        /\ trace' = NoteFailure([trace EXCEPT !.deleteCalls = @ \cup {wk[w].incident.Key}],
                                fails, "delete", wk[w].incident.Key)
        /\ discord' = DiscordDelete(discord, wk[w].existingMsg.channel_id,
                                    wk[w].existingMsg.message_id, fails)
    /\ wk' = [wk EXCEPT ![w].pc = "send"]
    /\ UNCHANGED <<cfgVars, histVars, now, db, evals, files, orchVars, cacheVars,
                   chanVars>>

\* The send of a worker that records the message it meant to send even when
\* the send failed.
SendThenRecord(w) ==
    /\ wk[w].pc = "send"
    /\ LET incident == wk[w].incident
           id == MessageId(cycles, incident.Key)
       IN
       \E ok \in BOOLEAN :
        /\ ~ok => MayFail(1)
        /\ Failed(One(~ok))
        /\ trace' = [NoteFailure(trace, ~ok, "send", incident.Key) EXCEPT
                       !.sendCalls = @ \cup {incident.Key},
                       !.sent = IF ok /\ HasChannel(incident.Assignee)
                                THEN @ \cup {Message(id, Channels[incident.Assignee],
                                                     incident.Key, incident.Assignee)}
                                ELSE @]
        /\ IF ok /\ HasChannel(incident.Assignee)
           THEN /\ discord' = discord \cup
                       {Message(id, Channels[incident.Assignee],
                                incident.Key, incident.Assignee)}
                /\ wk' = [wk EXCEPT ![w].pc = "upsertMsg", ![w].messageID = id]
           ELSE /\ wk' = [wk EXCEPT ![w].pc = "upsertMsg", ![w].messageID = id,
                                    ![w].r.hasError = TRUE]
                /\ UNCHANGED discord
    /\ UNCHANGED <<cfgVars, histVars, now, db, evals, files, orchVars, cacheVars, chanVars>>

\* The send of a worker that ends the process (log.Fatalf) when it fails.
SendOrExit(w) ==
    /\ wk[w].pc = "send"
    /\ LET incident == wk[w].incident
           id == MessageId(cycles, incident.Key)
       IN
       \E ok \in BOOLEAN :
        /\ ~ok => MayFail(1)
        /\ Failed(One(~ok))
        /\ trace' = [NoteFailure(trace, ~ok, "send", incident.Key) EXCEPT
                       !.sendCalls = @ \cup {incident.Key},
                       !.sent = IF ok /\ HasChannel(incident.Assignee)
                                THEN @ \cup {Message(id, Channels[incident.Assignee],
                                                     incident.Key, incident.Assignee)}
                                ELSE @]
        /\ IF ok /\ HasChannel(incident.Assignee)
           THEN /\ discord' = discord \cup
                       {Message(id, Channels[incident.Assignee],
                                incident.Key, incident.Assignee)}
                /\ wk' = [wk EXCEPT ![w].pc = "upsertMsg", ![w].messageID = id]
           ELSE /\ wk' = [wk EXCEPT ![w].pc = "emit", ![w].r.hasError = TRUE]
                /\ UNCHANGED discord
        /\ pc' = IF ok THEN pc ELSE "exited"
    /\ UNCHANGED <<cfgVars, histVars, now, db, evals, files, incidents, lastKeys, enq,
                   tally, summary, cycles, cacheVars, chanVars>>

\* The send of a worker that tries again until the message is delivered.
SendRetrying(w) ==
    /\ wk[w].pc = "send"
    /\ LET incident == wk[w].incident
           id == MessageId(cycles, incident.Key)
       IN
       \E ok \in BOOLEAN :
        /\ ~ok => MayFail(1)
        /\ Failed(One(~ok))
        /\ trace' = [NoteFailure(trace, ~ok, "send", incident.Key) EXCEPT
                       !.sendCalls = @ \cup {incident.Key},
                       !.sent = IF ok /\ HasChannel(incident.Assignee)
                                THEN @ \cup {Message(id, Channels[incident.Assignee],
                                                     incident.Key, incident.Assignee)}
                                ELSE @]
        /\ IF ok /\ HasChannel(incident.Assignee)
           THEN /\ discord' = discord \cup
                       {Message(id, Channels[incident.Assignee],
                                incident.Key, incident.Assignee)}
                /\ wk' = [wk EXCEPT ![w].pc = "upsertMsg", ![w].messageID = id]
           ELSE /\ UNCHANGED wk
                /\ UNCHANGED discord
    /\ UNCHANGED <<cfgVars, histVars, now, db, evals, files, orchVars, cacheVars, chanVars>>

\* SendEvaluationResult / SendIncidentNotification: fails when the assignee
\* has no channel or Discord refuses the message.
Send(w) ==
    /\ wk[w].pc = "send"
    /\ LET incident == wk[w].incident
           id == MessageId(cycles, incident.Key)
       IN
       \E ok \in BOOLEAN :
        /\ ~ok => MayFail(1)
        /\ Failed(One(~ok))
        /\ trace' = [NoteFailure(trace, ~ok, "send", incident.Key) EXCEPT
                       !.sendCalls = @ \cup {incident.Key},
                       !.sent = IF ok /\ HasChannel(incident.Assignee)
                                THEN @ \cup {Message(id, Channels[incident.Assignee],
                                                     incident.Key, incident.Assignee)}
                                ELSE @]
        /\ IF ok /\ HasChannel(incident.Assignee)
           THEN /\ discord' = discord \cup
                       {Message(id, Channels[incident.Assignee],
                                incident.Key, incident.Assignee)}
                /\ wk' = [wk EXCEPT ![w].pc = "upsertMsg", ![w].messageID = id]
           ELSE /\ wk' = [wk EXCEPT ![w].pc = "emit", ![w].r.hasError = TRUE]
                /\ UNCHANGED discord
    /\ UNCHANGED <<cfgVars, histVars, now, db, evals, files, orchVars, cacheVars, chanVars>>

\* The upsert of a worker that keeps the cache of the cycle up to date: the
\* row written is put into messageCache too.
UpsertMsgWriteThrough(w) ==
    /\ wk[w].pc = "upsertMsg"
    /\ LET incident == wk[w].incident IN
       \E ok \in BOOLEAN :
        /\ ~ok => MayFail(1)
        /\ Failed(One(~ok))
        /\ trace' = NoteFailure(trace, ~ok, "upsertMsg", incident.Key)
        /\ db' = IF ok
                 THEN UpsertMessage(db, incident.Key, Channels[incident.Assignee],
                                    wk[w].messageID, incident.Assignee, now)
                 ELSE db
        /\ messageCache' =
                 IF ok
                 THEN UpsertMessage(messageCache, incident.Key,
                                    Channels[incident.Assignee],
                                    wk[w].messageID, incident.Assignee, now)
                 ELSE messageCache
    /\ wk' = [wk EXCEPT ![w] =
                IF variant = "eval" THEN [@ EXCEPT !.pc = "upsertEval"]
                ELSE [@ EXCEPT !.pc = "emit", !.r.acted = TRUE]]
    /\ UNCHANGED <<cfgVars, histVars, now, evals, files, discord, orchVars,
                   evalCache, cacheFailed, chanVars>>

\* dbClient.UpsertMessage(incident.Key, channelID, messageID, incident.Assignee);
\* a failure is only logged.  The plain build is done after it.
UpsertMsg(w) ==
    /\ wk[w].pc = "upsertMsg"
    /\ LET incident == wk[w].incident IN
       \E ok \in BOOLEAN :
        /\ ~ok => MayFail(1)
        /\ Failed(One(~ok))
        /\ trace' = NoteFailure(trace, ~ok, "upsertMsg", incident.Key)
        /\ db' = IF ok
                 THEN UpsertMessage(db, incident.Key, Channels[incident.Assignee],
                                    wk[w].messageID, incident.Assignee, now)
                 ELSE db
    /\ wk' = [wk EXCEPT ![w] =
                IF variant = "eval" THEN [@ EXCEPT !.pc = "upsertEval"]
                ELSE [@ EXCEPT !.pc = "emit", !.r.acted = TRUE]]
    /\ UNCHANGED <<cfgVars, histVars, now, evals, files, discord, orchVars,
                   cacheVars, chanVars>>

\* dbClient.UpsertEvaluation(incident.Key, incident.UpdatedDate, ...); a
\* failure is only logged.  r.evaluated = true.
UpsertEval(w) ==
    /\ wk[w].pc = "upsertEval"
    /\ LET incident == wk[w].incident IN
       \E ok \in BOOLEAN, stored \in DatetimeValues(incident.UpdatedDate) :
        /\ ~ok => MayFail(1) /\ stored = TruncateToSecond(incident.UpdatedDate)
        /\ Failed(One(~ok))
        /\ trace' = NoteFailure(trace, ~ok, "upsertEval", incident.Key)
        /\ evals' = IF ok THEN UpsertEvaluation(evals, incident.Key, stored)
                    ELSE evals
    /\ wk' = [wk EXCEPT ![w].pc = "emit", ![w].r.acted = TRUE]
    /\ UNCHANGED <<cfgVars, histVars, now, db, files, discord, orchVars, cacheVars,
                   chanVars>>

\* A send on results that does not wait: the result is dropped when a result
\* is already waiting to be read.
EmitOrDrop(w) ==
    /\ wk[w].pc = "emit"
    /\ results' = IF Len(results) < 1 THEN Append(results, wk[w].r) ELSE results
    /\ wk' = [wk EXCEPT ![w] = IdleWorker]
    /\ trace' = [trace EXCEPT
                   !.emitted = @ (+) SetToBag({wk[w].incident.Key}),
                   !.erroredKeys = IF wk[w].r.hasError
                                   THEN @ \cup {wk[w].incident.Key} ELSE @,
                   !.skippedKeys = IF wk[w].r.skipped
                                   THEN @ \cup {wk[w].incident.Key} ELSE @]
    /\ UNCHANGED <<cfgVars, histVars, now, storeVars, orchVars, cacheVars, jobs, jobsClosed,
                   resultsClosed, failures>>

\* results <- r (buffered channel of capacity len(incidents))
Emit(w) ==
    /\ wk[w].pc = "emit"
    /\ Len(results) < Len(incidents)
    /\ results' = Append(results, wk[w].r)
    /\ wk' = [wk EXCEPT ![w] = IdleWorker]
    /\ trace' = [trace EXCEPT
                   !.emitted = @ (+) SetToBag({wk[w].incident.Key}),
                   !.erroredKeys = IF wk[w].r.hasError
                                   THEN @ \cup {wk[w].incident.Key} ELSE @,
                   !.skippedKeys = IF wk[w].r.skipped
                                   THEN @ \cup {wk[w].incident.Key} ELSE @]
    /\ UNCHANGED <<cfgVars, histVars, now, storeVars, orchVars, cacheVars, jobs, jobsClosed,
                   resultsClosed, failures>>

(***************************************************************************)
(* CleanupRemovedIncidents (internal/database/mysql.go)                    *)
(***************************************************************************)
\* The rows of the listing whose incident is no longer in Jira.
Stale(active, currentKeys) == {m \in active : m.incident_key \notin currentKeys}

RECURSIVE CleanupLoop(_, _, _, _, _)
\* `for _, msg := range activeMessages`: st is [db, discord, deletes,
\* deletedCount]; dfail and sfail are the rows whose Discord delete and whose
\* store delete fail.
CleanupLoop(active, st, currentKeys, dfail, sfail) ==
    IF active = {} THEN st
    ELSE LET msg == CHOOSE m \in active : TRUE
             next ==
               IF msg.incident_key \in currentKeys THEN st
               ELSE [db |-> IF msg \in sfail THEN st.db
                            ELSE DeleteMessage(st.db, msg.incident_key, msg.assignee),
                     discord |-> DiscordDelete(st.discord, msg.channel_id,
                                               msg.message_id, msg \in dfail),
                     deletes |-> st.deletes (+)
                                 SetToBag({<<msg.channel_id, msg.message_id>>}),
                     deletedCount |-> IF msg \in sfail THEN st.deletedCount
                                      ELSE st.deletedCount + 1]
         IN  CleanupLoop(active \ {msg}, next, currentKeys, dfail, sfail)

\* The loop without the `!currentIncidentsMap[msg.IncidentKey]` test: every row
\* listed is taken for a removed incident.
CleanupEveryRow(table, live, currentKeys, dfail, sfail) ==
    CleanupLoop(GetAllActiveMessages(table),
                [db |-> table, discord |-> live, deletes |-> EmptyBag,
                 deletedCount |-> 0],
                {}, dfail, sfail)

\* The loop with the filter of the listing applied to the current keys: a
\* listing restricted to the incidents still in Jira.
CleanupListedByKeys(table, live, currentKeys, dfail, sfail) ==
    CleanupLoop(GetMessagesByKeys(table, currentKeys),
                [db |-> table, discord |-> live, deletes |-> EmptyBag,
                 deletedCount |-> 0],
                currentKeys, dfail, sfail)

\* The loop that leaves the row of a message it could not delete from the
\* channel.
CleanupSinkFirst(table, live, currentKeys, dfail, sfail) ==
    CleanupLoop(GetAllActiveMessages(table),
                [db |-> table, discord |-> live, deletes |-> EmptyBag,
                 deletedCount |-> 0],
                currentKeys, dfail, sfail \cup dfail)

\* The pass that takes an empty list of current keys for a fetch that gave
\* nothing to go by, and removes nothing.
CleanupUnlessEmpty(table, live, currentKeys, dfail, sfail) ==
    IF currentKeys = {}
    THEN [db |-> table, discord |-> live, deletes |-> EmptyBag, deletedCount |-> 0]
    ELSE CleanupLoop(GetAllActiveMessages(table),
                     [db |-> table, discord |-> live, deletes |-> EmptyBag,
                      deletedCount |-> 0],
                     currentKeys, dfail, sfail)

RECURSIVE CleanupLoopStopping(_, _, _, _, _)
\* The loop that returns the error of the first delete that fails: the rows
\* after it are not looked at.
CleanupLoopStopping(active, st, currentKeys, dfail, sfail) ==
    IF active = {} THEN st
    ELSE LET msg == CHOOSE m \in active : TRUE
             next ==
               IF msg.incident_key \in currentKeys THEN st
               ELSE [db |-> IF msg \in sfail \cup dfail THEN st.db
                            ELSE DeleteMessage(st.db, msg.incident_key, msg.assignee),
                     discord |-> DiscordDelete(st.discord, msg.channel_id,
                                               msg.message_id, msg \in dfail),
                     deletes |-> st.deletes (+)
                                 SetToBag({<<msg.channel_id, msg.message_id>>}),
                     deletedCount |-> IF msg \in sfail \cup dfail THEN st.deletedCount
                                      ELSE st.deletedCount + 1]
         IN  IF msg.incident_key \notin currentKeys /\ msg \in sfail \cup dfail
             THEN next
             ELSE CleanupLoopStopping(active \ {msg}, next, currentKeys, dfail, sfail)

\* The pass that gives up at the first stale row it could not delete.
CleanupStopAtFailure(table, live, currentKeys, dfail, sfail) ==
    CleanupLoopStopping(GetAllActiveMessages(table),
                        [db |-> table, discord |-> live, deletes |-> EmptyBag,
                         deletedCount |-> 0],
                        currentKeys, dfail, sfail)

CleanupRemovedIncidents(table, live, currentKeys, dfail, sfail) ==
    CleanupLoop(GetAllActiveMessages(table),
                [db |-> table, discord |-> live, deletes |-> EmptyBag,
                 deletedCount |-> 0],
                currentKeys, dfail, sfail)

\* The tail of syncIncidents once the results are drained: the cleanup pass
\* (its error is counted) and the summary line.
Cleanup ==
    /\ pc = "drain"
    /\ resultsClosed
    /\ results = << >>
    /\ \E listOk \in BOOLEAN :
        LET stale == Stale(GetAllActiveMessages(db), KeysOf(incidents)) IN
        \E dfail \in SUBSET {m \in stale : IsLive(discord, m.channel_id, m.message_id)},
           sfail \in SUBSET stale :
        LET out == CleanupRemovedIncidents(db, discord, KeysOf(incidents),
                                           dfail, sfail)
            errorCount == IF listOk THEN tally.errors ELSE tally.errors + 1
        IN  /\ ~listOk => dfail = {} /\ sfail = {}
            /\ MayFail(One(~listOk) + Cardinality(dfail) + Cardinality(sfail))
            /\ Failed(One(~listOk) + Cardinality(dfail) + Cardinality(sfail))
            /\ db' = IF listOk THEN out.db ELSE db
            /\ discord' = IF listOk THEN out.discord ELSE discord
            /\ tally' = [tally EXCEPT !.errors = errorCount]
            /\ summary' = [logged |-> TRUE, ok |-> ~(errorCount > 0),
                           errors |-> errorCount]
            /\ trace' = [trace EXCEPT
                           !.cleanupRan = TRUE,
                           !.listed = IF listOk THEN GetAllActiveMessages(db) ELSE {},
                           !.cleanupDeletes = IF listOk THEN out.deletes ELSE EmptyBag,
                           !.cleanupStoreOk = listOk /\ sfail = {},
                           !.cleanupSinkOk = listOk /\ dfail = {},
                           !.cleanupSinkFailed = dfail,
                           !.cleanupStoreFailed = sfail]
    /\ pc' = "done"
    /\ UNCHANGED <<cfgVars, histVars, now, evals, files, incidents, lastKeys,
                   cacheVars, enq, chanVars, wk, cycles>>

\* syncIncidents returns: its locals are gone, the loop in main waits for the
\* next tick.
Return ==
    /\ pc = "done"
    /\ pc' = "idle"
    /\ incidents' = << >>
    /\ messageCache' = {}
    /\ evalCache' = << >>
    /\ cacheFailed' = [msg |-> FALSE, eval |-> FALSE]
    /\ enq' = 0
    /\ jobs' = << >>
    /\ jobsClosed' = FALSE
    /\ results' = << >>
    /\ resultsClosed' = FALSE
    /\ wk' = [w \in Workers |-> IdleWorker]
    /\ tally' = ZeroTally
    /\ summary' = NoSummary
    /\ trace' = NoTrace
    /\ UNCHANGED <<cfgVars, histVars, now, storeVars, lastKeys, cycles, failures>>

(***************************************************************************)
(* The wall clock                                                          *)
(***************************************************************************)
\* Time passes between two cycles.
Tick ==
    /\ pc = "idle"
    /\ cycles < MaxCycles
    /\ now < MaxTime
    /\ now' = now + 1
    /\ UNCHANGED <<cfgVars, histVars, storeVars, orchVars, cacheVars, chanVars, wk, trace,
                   failures>>

(***************************************************************************)
(* Specifications                                                          *)
(***************************************************************************)
(***************************************************************************)
(* The loop in main: one call of syncIncidents at startup, then one for    *)
(* each tick received from ticker.C                                        *)
(***************************************************************************)
\* The ticker sends a tick, whatever main is doing; its channel has room for
\* one tick, and a tick that finds it full is dropped.
TickFires ==
    /\ ~tickPending
    /\ tickPending' = TRUE
    /\ UNCHANGED <<cfgVars, lastSnap, decided, now, storeVars, orchVars, cacheVars,
                   chanVars, wk, trace, failures>>

\* main is at the call of syncIncidents: the one before the loop, or, with
\* a tick received, the one in the loop.
AtCall == cycles = 0 \/ tickPending
\* What is left in ticker.C once main is in the call.
AfterReceive == cycles = 0 /\ tickPending

\* main calls syncIncidents and the fetch succeeds.
StartCycleOnTick ==
    /\ AtCall
    /\ StartCycleStep
    /\ tickPending' = AfterReceive
    /\ UNCHANGED <<lastSnap, decided>>

\* main calls syncIncidents and the fetch fails.
FetchFailsOnTick ==
    /\ AtCall
    /\ FetchFailsStep
    /\ tickPending' = AfterReceive
    /\ UNCHANGED <<lastSnap, decided>>

\* The evaluation build with the ticker followed.
NextTicker ==
    \/ TickFires
    \/ FetchFailsOnTick
    \/ StartCycleOnTick
    \/ Enqueue
    \/ CloseJobs
    \/ CloseResults
    \/ Drain
    \/ Cleanup
    \/ Return
    \/ \E w \in Workers : TakeJob(w)
    \/ \E w \in Workers : Save(w)
    \/ \E w \in Workers : Evaluate(w)
    \/ \E w \in Workers : DeleteOld(w)
    \/ \E w \in Workers : Send(w)
    \/ \E w \in Workers : UpsertMsg(w)
    \/ \E w \in Workers : UpsertEval(w)
    \/ \E w \in Workers : Emit(w)

(***************************************************************************)
(* The evaluation build with a store whose cache queries fail on top of    *)
(* the failures counted                                                    *)
(***************************************************************************)
\* GetIncidents succeeds and returns one of snaps; each cache query may fail,
\* and a failed one counts among the failures of the behaviour only if
\* counted; last is the number of cycles followed.
StartCycleOf(snaps, last, counted) ==
    /\ pc = "idle"
    /\ cycles < last
    /\ \E snap \in snaps, msgOk \in BOOLEAN, evalOk \in BOOLEAN :
        LET n == IF counted THEN One(~msgOk) + One(~evalOk) ELSE 0 IN
        /\ (Len(snap) = 0 \/ variant = "plain") => evalOk
        /\ Len(snap) = 0 => msgOk
        /\ MayFail(n)
        /\ Failed(n)
        /\ incidents' = snap
        /\ lastKeys' = KeysOf(snap)
        /\ messageCache' = IF msgOk THEN GetMessagesByKeys(db, KeysOf(snap)) ELSE {}
        /\ evalCache' = IF variant = "eval" /\ evalOk
                        THEN GetEvaluationsByKeys(evals, KeysOf(snap)) ELSE << >>
        /\ cacheFailed' = [msg |-> ~msgOk, eval |-> ~evalOk]
    /\ cycles' = cycles + 1
    /\ pc' = "produce"
    /\ enq' = 0
    /\ jobs' = << >>
    /\ jobsClosed' = FALSE
    /\ results' = << >>
    /\ resultsClosed' = FALSE
    /\ wk' = [w \in Workers |-> IdleWorker]
    /\ tally' = ZeroTally
    /\ trace' = [NoTrace EXCEPT !.prevKeys = lastKeys, !.prevSnap = lastSnap,
                                !.before = CurrentStore]
    /\ UNCHANGED <<cfgVars, histVars, now, storeVars, summary>>

\* The start of a cycle whose cache queries fail uncounted.
StartCycleOutage == StartCycleOf(SnapshotsOf(variant), MaxCycles, FALSE)

NextOutage ==
    \/ FetchFails
    \/ StartCycleOutage
    \/ Enqueue
    \/ CloseJobs
    \/ CloseResults
    \/ Drain
    \/ Cleanup
    \/ Return
    \/ \E w \in Workers : TakeJob(w)
    \/ \E w \in Workers : Save(w)
    \/ \E w \in Workers : Evaluate(w)
    \/ \E w \in Workers : DeleteOld(w)
    \/ \E w \in Workers : Send(w)
    \/ \E w \in Workers : UpsertMsg(w)
    \/ \E w \in Workers : UpsertEval(w)
    \/ \E w \in Workers : Emit(w)

(***************************************************************************)
(* The evaluation build followed one cycle further, on the snapshots of    *)
(* two incidents that leave the tracker, with a store whose listing fails  *)
(* on top of the failures counted                                          *)
(***************************************************************************)
\* The tail of syncIncidents with a listing that may fail on top of the
\* failures counted: the failure of the listing counts among the failures
\* of the behaviour only if counted.
CleanupOf(counted) ==
    /\ pc = "drain"
    /\ resultsClosed
    /\ results = << >>
    /\ \E listOk \in BOOLEAN :
        LET stale == Stale(GetAllActiveMessages(db), KeysOf(incidents)) IN
        \E dfail \in SUBSET {m \in stale : IsLive(discord, m.channel_id, m.message_id)},
           sfail \in SUBSET stale :
        LET out == CleanupRemovedIncidents(db, discord, KeysOf(incidents),
                                           dfail, sfail)
            errorCount == IF listOk THEN tally.errors ELSE tally.errors + 1
            n == (IF counted THEN One(~listOk) ELSE 0)
                 + Cardinality(dfail) + Cardinality(sfail)
        IN  /\ ~listOk => dfail = {} /\ sfail = {}
            /\ MayFail(n)
            /\ Failed(n)
            /\ db' = IF listOk THEN out.db ELSE db
            /\ discord' = IF listOk THEN out.discord ELSE discord
            /\ tally' = [tally EXCEPT !.errors = errorCount]
            /\ summary' = [logged |-> TRUE, ok |-> ~(errorCount > 0),
                           errors |-> errorCount]
            /\ trace' = [trace EXCEPT
                           !.cleanupRan = TRUE,
                           !.listed = IF listOk THEN GetAllActiveMessages(db) ELSE {},
                           !.cleanupDeletes = IF listOk THEN out.deletes ELSE EmptyBag,
                           !.cleanupStoreOk = listOk /\ sfail = {},
                           !.cleanupSinkOk = listOk /\ dfail = {},
                           !.cleanupSinkFailed = dfail,
                           !.cleanupStoreFailed = sfail]
    /\ pc' = "done"
    /\ UNCHANGED <<cfgVars, histVars, now, evals, files, incidents, lastKeys,
                   cacheVars, enq, chanVars, wk, cycles>>

\* The cleanup pass whose listing fails uncounted.
CleanupRetry == CleanupOf(FALSE)

\* Both incidents open, the first one alone after an update, and none.
RetrySnapshots ==
    {<<[Key |-> KeyList[1], Assignee |-> "A1", UpdatedDate |-> 0],
       [Key |-> KeyList[2], Assignee |-> "A1", UpdatedDate |-> 0]>>,
     <<[Key |-> KeyList[1], Assignee |-> "A1", UpdatedDate |-> 2]>>,
     << >>}

\* The start of a cycle on one of these snapshots; a failed cache query is
\* one of the failures counted.
StartCycleRetry == StartCycleOf(RetrySnapshots, MaxCycles + 1, TRUE)

NextRetry ==
    \/ StartCycleRetry
    \/ Enqueue
    \/ CloseJobs
    \/ CloseResults
    \/ Drain
    \/ CleanupRetry
    \/ Return
    \/ \E w \in Workers : TakeJob(w)
    \/ \E w \in Workers : Save(w)
    \/ \E w \in Workers : Evaluate(w)
    \/ \E w \in Workers : DeleteOld(w)
    \/ \E w \in Workers : Send(w)
    \/ \E w \in Workers : UpsertMsg(w)
    \/ \E w \in Workers : UpsertEval(w)
    \/ \E w \in Workers : Emit(w)

\* The evaluation build (src/main.go).
NextEval ==
    \/ FetchFails
    \/ StartCycle
    \/ Enqueue
    \/ CloseJobs
    \/ CloseResults
    \/ Drain
    \/ Cleanup
    \/ Return
    \/ \E w \in Workers : TakeJob(w)
    \/ \E w \in Workers : Save(w)
    \/ \E w \in Workers : Evaluate(w)
    \/ \E w \in Workers : DeleteOld(w)
    \/ \E w \in Workers : Send(w)
    \/ \E w \in Workers : UpsertMsg(w)
    \/ \E w \in Workers : UpsertEval(w)
    \/ \E w \in Workers : Emit(w)

\* The plain build (src/unnamed/part_002).
NextPlain ==
    \/ FetchFails
    \/ StartCycle
    \/ Enqueue
    \/ CloseJobs
    \/ CloseResults
    \/ Drain
    \/ Cleanup
    \/ Return
    \/ Tick
    \/ \E w \in Workers : TakeJob(w)
    \/ \E w \in Workers : Save(w)
    \/ \E w \in Workers : DeleteOld(w)
    \/ \E w \in Workers : Send(w)
    \/ \E w \in Workers : UpsertMsg(w)
    \/ \E w \in Workers : Emit(w)

InitEval == Init /\ variant = "eval"
InitPlain == Init /\ variant = "plain"

SpecEval == InitEval /\ [][NextEval]_vars
SpecPlain == InitPlain /\ [][NextPlain]_vars

\* Either build: Evaluate and UpsertEval are steps of the evaluation build
\* only (no worker of the plain build gets there), and the clock is followed
\* for the plain build only, the one that reads it.
Next ==
    \/ FetchFails
    \/ StartCycle
    \/ Enqueue
    \/ CloseJobs
    \/ CloseResults
    \/ Drain
    \/ Cleanup
    \/ Return
    \/ variant = "plain" /\ Tick
    \/ \E w \in Workers : TakeJob(w)
    \/ \E w \in Workers : Save(w)
    \/ \E w \in Workers : Evaluate(w)
    \/ \E w \in Workers : DeleteOld(w)
    \/ \E w \in Workers : Send(w)
    \/ \E w \in Workers : UpsertMsg(w)
    \/ \E w \in Workers : UpsertEval(w)
    \/ \E w \in Workers : Emit(w)

\* Either build, with the snapshot of each cycle noted.
NextRerun ==
    \/ FetchFails
    \/ StartCycleNoted
    \/ Enqueue
    \/ CloseJobs
    \/ CloseResults
    \/ Drain
    \/ Cleanup
    \/ Return
    \/ variant = "plain" /\ Tick
    \/ \E w \in Workers : TakeJob(w)
    \/ \E w \in Workers : Save(w)
    \/ \E w \in Workers : Evaluate(w)
    \/ \E w \in Workers : DeleteOld(w)
    \/ \E w \in Workers : Send(w)
    \/ \E w \in Workers : UpsertMsg(w)
    \/ \E w \in Workers : UpsertEval(w)
    \/ \E w \in Workers : Emit(w)

SpecRerun == Init /\ [][NextRerun]_vars

\* Either build, with the decision of each worker noted.
NextDecisions ==
    \/ FetchFails
    \/ StartCycle
    \/ Enqueue
    \/ CloseJobs
    \/ CloseResults
    \/ Drain
    \/ Cleanup
    \/ Return
    \/ variant = "plain" /\ Tick
    \/ \E w \in Workers : TakeJobNoted(w)
    \/ \E w \in Workers : SaveNoted(w)
    \/ \E w \in Workers : Evaluate(w)
    \/ \E w \in Workers : DeleteOld(w)
    \/ \E w \in Workers : Send(w)
    \/ \E w \in Workers : UpsertMsg(w)
    \/ \E w \in Workers : UpsertEval(w)
    \/ \E w \in Workers : Emit(w)

SpecDecisions == Init /\ [][NextDecisions]_vars

\* A step of a cycle under way: a step of the orchestrator's goroutine past
\* the fetch, of the goroutine that waits for the workers, or of a worker.
CycleStep ==
    \/ Enqueue
    \/ CloseJobs
    \/ CloseResults
    \/ Drain
    \/ Cleanup
    \/ Return
    \/ \E w \in Workers :
          \/ TakeJob(w) \/ Save(w) \/ Evaluate(w) \/ DeleteOld(w)
          \/ Send(w) \/ UpsertMsg(w) \/ UpsertEval(w) \/ Emit(w)

SpecTicker == InitEval /\ [][NextTicker]_vars

SpecOutage == InitEval /\ [][NextOutage]_vars

SpecRetry == InitEval /\ [][NextRetry]_vars

\* The evaluation build under a scheduler that lets a cycle under way go on:
\* every collaborator call returns and a goroutine that can run does run.
SpecEvalFair == SpecEval /\ WF_vars(CycleStep)

\* The plain build under the same scheduler.
SpecPlainFair == SpecPlain /\ WF_vars(CycleStep)

Spec == Init /\ [][Next]_vars

(***************************************************************************)
(* The worker pool under a snapshot larger than the pool                   *)
(***************************************************************************)
\* The keys of a large snapshot.
PoolKeyList == <<"P1", "P2", "P3", "P4", "P5", "P6", "P7", "P8">>
\* GetIncidents returns more incidents than there are workers.
PoolSnapshot ==
    [i \in 1..(numWorkers + MaxExtra) |->
        [Key |-> PoolKeyList[i], Assignee |-> "A1", UpdatedDate |-> 0]]

PoolKeyIndex(key) == CHOOSE i \in 1..Len(PoolKeyList) : PoolKeyList[i] = key
\* The id Discord gives a message of the large snapshot.
PoolMessageId(cycle, key) == (cycle - 1) * Len(PoolKeyList) + PoolKeyIndex(key)

\* The snapshots of the pool: none at all, or more than there are workers.
PoolSnapshots == {<< >>, PoolSnapshot}

\* The start of the first cycle of a deployment, on the empty or the large
\* snapshot.
StartCyclePool ==
    /\ pc = "idle"
    /\ cycles = 0
    /\ \E snap \in PoolSnapshots, msgOk \in BOOLEAN, evalOk \in BOOLEAN :
        /\ (Len(snap) = 0 \/ variant = "plain") => evalOk
        /\ Len(snap) = 0 => msgOk
        /\ MayFail(One(~msgOk) + One(~evalOk))
        /\ Failed(One(~msgOk) + One(~evalOk))
        /\ incidents' = snap
        /\ lastKeys' = KeysOf(snap)
        /\ messageCache' = IF msgOk THEN GetMessagesByKeys(db, KeysOf(snap)) ELSE {}
        /\ evalCache' = IF variant = "eval" /\ evalOk
                        THEN GetEvaluationsByKeys(evals, KeysOf(snap)) ELSE << >>
        /\ cacheFailed' = [msg |-> ~msgOk, eval |-> ~evalOk]
    /\ cycles' = cycles + 1
    /\ pc' = "produce"
    /\ enq' = 0
    /\ jobs' = << >>
    /\ jobsClosed' = FALSE
    /\ results' = << >>
    /\ resultsClosed' = FALSE
    /\ wk' = [w \in Workers |-> IdleWorker]
    /\ tally' = ZeroTally
    /\ trace' = [NoTrace EXCEPT !.prevKeys = lastKeys, !.prevSnap = lastSnap,
                                !.before = CurrentStore]
    /\ UNCHANGED <<cfgVars, histVars, now, storeVars, summary>>

\* The send for an incident of the large snapshot.
SendPool(w) ==
    /\ wk[w].pc = "send"
    /\ LET incident == wk[w].incident
           id == PoolMessageId(cycles, incident.Key)
       IN
       \E ok \in BOOLEAN :
        /\ ~ok => MayFail(1)
        /\ Failed(One(~ok))
        /\ trace' = [NoteFailure(trace, ~ok, "send", incident.Key) EXCEPT
                       !.sendCalls = @ \cup {incident.Key},
                       !.sent = IF ok /\ HasChannel(incident.Assignee)
                                THEN @ \cup {Message(id, Channels[incident.Assignee],
                                                     incident.Key, incident.Assignee)}
                                ELSE @]
        /\ IF ok /\ HasChannel(incident.Assignee)
           THEN /\ discord' = discord \cup
                       {Message(id, Channels[incident.Assignee],
                                incident.Key, incident.Assignee)}
                /\ wk' = [wk EXCEPT ![w].pc = "upsertMsg", ![w].messageID = id]
           ELSE /\ wk' = [wk EXCEPT ![w].pc = "emit", ![w].r.hasError = TRUE]
                /\ UNCHANGED discord
    /\ UNCHANGED <<cfgVars, histVars, now, db, evals, files, orchVars, cacheVars, chanVars>>

\* A fresh deployment whose collaborators do not fail: the failures a
\* behaviour may meet are spent.
InitPool ==
    /\ variant \in {"eval", "plain"}
    /\ renotifyIntervalMinutes \in
          IF variant = "plain" THEN RenotifyIntervals ELSE {0}
    /\ now = 0
    /\ db = {}
    /\ evals = << >>
    /\ files = {}
    /\ discord = {}
    /\ pc = "idle"
    /\ incidents = << >>
    /\ lastKeys = {}
    /\ lastSnap = << >>
    /\ decided = EmptyBag
    /\ tickPending = FALSE
    /\ messageCache = {}
    /\ evalCache = << >>
    /\ cacheFailed = [msg |-> FALSE, eval |-> FALSE]
    /\ enq = 0
    /\ jobs = << >>
    /\ jobsClosed = FALSE
    /\ results = << >>
    /\ resultsClosed = FALSE
    /\ wk = [w \in Workers |-> IdleWorker]
    /\ tally = ZeroTally
    /\ summary = NoSummary
    /\ trace = NoTrace
    /\ cycles = 0
    /\ failures = MaxFailures

\* The first cycle on a large snapshot: the workers take the incidents as
\* they become free.  No incident has a NotificationRecord yet, so no worker
\* has an old message to delete.
NextPool ==
    \/ StartCyclePool
    \/ Enqueue
    \/ CloseJobs
    \/ CloseResults
    \/ Drain
    \/ Cleanup
    \/ Return
    \/ \E w \in Workers : TakeJob(w)
    \/ \E w \in Workers : Save(w)
    \/ \E w \in Workers : Evaluate(w)
    \/ \E w \in Workers : SendPool(w)
    \/ \E w \in Workers : UpsertMsg(w)
    \/ \E w \in Workers : UpsertEval(w)
    \/ \E w \in Workers : Emit(w)

\* The next step of a worker of the pool that holds an incident.
PoolWorkerStep(w) ==
    \/ Save(w) \/ Evaluate(w) \/ SendPool(w)
    \/ UpsertMsg(w) \/ UpsertEval(w) \/ Emit(w)

\* A step of the first cycle under way: a step of the orchestrator's
\* goroutine past the fetch, of the goroutine that waits for the workers, or
\* of a worker.
PoolStep ==
    \/ Enqueue
    \/ CloseJobs
    \/ CloseResults
    \/ Drain
    \/ Cleanup
    \/ Return
    \/ \E w \in Workers : TakeJob(w) \/ PoolWorkerStep(w)

SpecPool == InitPool /\ [][NextPool]_vars

\* The first cycle with the scheduler's fairness: a goroutine that can take
\* a step takes one.
SpecPoolFair == SpecPool /\ WF_vars(PoolStep)

(***************************************************************************)
(* Properties                                                              *)
(***************************************************************************)
\* The cycle is over: the cleanup pass has run and the summary is logged.
CycleEnded == pc = "done" /\ trace.cleanupRan

\* The keys of the snapshot before this one that this cycle's snapshot lacks.
RemovedKeys == trace.prevKeys \ lastKeys

LiveFor(key) == {m \in discord : m.key = key}

\* The worker is past the decision of its incident.
Decided(w) == wk[w].pc \notin {"idle", "save"}

\* ---- C1 ----------------------------------------------------------------
\* C1: in every reachable state, whatever the interleaving of the workers
\* and whichever collaborator calls have failed, the store holds at most one
\* NotificationRecord per (incident key, assignee) pair.
C1_OneRecordPerPair ==
    \A r1 \in db, r2 \in db :
        (r1.incident_key = r2.incident_key /\ r1.assignee = r2.assignee)
            => r1 = r2

\* An upsert has just replaced the record of a pair that had one: the old
\* row is gone and the row of the new message is there.
C1_Witness ==
    \E w \in Workers :
        /\ wk[w].pc \in {"upsertEval", "emit"}
        /\ wk[w].messageID # 0
        /\ wk[w].existingMsg # NoMsg
        /\ wk[w].existingMsg \notin db
        /\ \E r \in db : /\ r.incident_key = wk[w].incident.Key
                         /\ r.assignee = wk[w].incident.Assignee
                         /\ r.message_id = wk[w].messageID

\* ---- C2 ----------------------------------------------------------------
\* C2 (as claimed): at the end of every cycle at most one delivered message
\* is live per (incident key, assignee) pair, also after a failed delete of
\* the old message, a failed message-cache load or a failed upsert.
C2_OneLivePerPair ==
    CycleEnded =>
        \A m1 \in discord, m2 \in discord :
            (m1.key = m2.key /\ m1.assignee = m2.assignee) => m1 = m2

\* ---- C3 ----------------------------------------------------------------
\* C3 (as claimed, and here for the cycles in which no collaborator call has
\* ever failed): at the end of a cycle at most one delivered message is live
\* per incident key, over all the assignees the incident has had.
C3_OneLivePerIncident ==
    (CycleEnded /\ failures = 0) =>
        \A m1 \in discord, m2 \in discord : m1.key = m2.key => m1 = m2

C5_Retracted ==
    (CycleEnded /\ trace.cleanupStoreOk /\ trace.cleanupSinkOk) =>
        \A k \in RemovedKeys : LiveFor(k) = {}

\* ---- C6 ----------------------------------------------------------------
\* C6: after a cleanup pass with current keys S whose store calls succeeded,
\* the store holds exactly the listed records with a key in S; each listed
\* record with a key outside S got exactly one sink delete, addressed with
\* its channel id and message id; no sink delete went to another address.
C6_CleanupExact ==
    (CycleEnded /\ trace.cleanupStoreOk) =>
        LET S == KeysOf(incidents)
            addr(r) == <<r.channel_id, r.message_id>>
        IN  /\ db = {r \in trace.listed : r.incident_key \in S}
            /\ \A r \in trace.listed :
                 IF r.incident_key \in S
                 THEN CopiesIn(addr(r), trace.cleanupDeletes) = 0
                 ELSE CopiesIn(addr(r), trace.cleanupDeletes) = 1
            /\ \A a \in BagToSet(trace.cleanupDeletes) :
                 \E r \in trace.listed : r.incident_key \notin S /\ addr(r) = a

\* The pass listed a record to keep and a record to remove.
C6_Witness ==
    /\ CycleEnded
    /\ trace.cleanupStoreOk
    /\ \E r \in trace.listed : r.incident_key \in KeysOf(incidents)
    /\ \E r \in trace.listed : r.incident_key \notin KeysOf(incidents)

\* ---- C7 ----------------------------------------------------------------
\* C7: in the evaluation build, a worker whose incident has a cached
\* EvaluationRecord skips it exactly when the stored timestamp and the
\* incident's updated timestamp have the same whole second; a skipped
\* incident is not evaluated and nothing is sent for it, and an incident not
\* skipped goes to the evaluator before anything is deleted or sent.
C7_StalenessDecision ==
    \A w \in Workers :
        (/\ variant = "eval"
         /\ wk[w].pc # "idle"
         /\ wk[w].incident.Key \in DOMAIN evalCache) =>
            LET key == wk[w].incident.Key
                same == Unix(evalCache[key]) = Unix(wk[w].incident.UpdatedDate)
            IN  /\ wk[w].r.skipped <=> same
                /\ same => /\ wk[w].pc = "emit"
                           /\ ~wk[w].r.acted
                           /\ key \notin trace.evalCalls
                           /\ key \notin trace.sendCalls
                /\ ~same => /\ wk[w].pc \in {"save", "eval", "delete", "send",
                                             "upsertMsg", "upsertEval", "emit"}
                            /\ wk[w].pc \notin {"save", "eval"}
                                  => key \in trace.evalCalls
                            /\ wk[w].r.acted
                                  => \E m \in trace.sent : m.key = key

\* A worker has skipped an incident whose cached timestamp is not the
\* incident's, but lies in the same second.
C7_Witness ==
    \E w \in Workers :
        /\ variant = "eval"
        /\ wk[w].pc = "emit"
        /\ wk[w].r.skipped
        /\ wk[w].incident.Key \in DOMAIN evalCache
        /\ evalCache[wk[w].incident.Key] # wk[w].incident.UpdatedDate

\* ---- C8 ----------------------------------------------------------------
\* C8: in the plain build, a worker whose incident has a cached
\* NotificationRecord with last-notification time L skips it exactly when
\* now - L < interval and goes on to delete and send exactly when
\* now - L >= interval, equality included; the decision function gives the
\* same between two cycles, at the time the clock shows, for every interval
\* and every L of the model.
C8_RenotifyBoundary ==
    /\ pc = "idle" =>
         \A i \in 0..(MaxTime + 1), L \in 0..MaxTime :
            ShouldRenotifyFromCache(Row("K1", "ch1", 1, "A1", L), i, now)
               <=> (now - L >= i)
    /\ \A w \in Workers :
        (/\ variant = "plain"
         /\ Decided(w)
         /\ wk[w].existingMsg # NoMsg) =>
            LET due == now - wk[w].existingMsg.last_notification
                          >= renotifyIntervalMinutes
            IN  /\ wk[w].r.skipped <=> ~due
                /\ ~due => wk[w].pc = "emit" /\ ~wk[w].r.acted
                /\ due => /\ wk[w].pc \in {"delete", "send", "upsertMsg", "emit"}
                          /\ wk[w].pc = "emit"
                                => /\ wk[w].incident.Key \in trace.sendCalls
                                   /\ wk[w].r.acted \/ wk[w].r.hasError

\* A worker re-sends at exact equality: now - L = interval.
C8_Witness ==
    \E w \in Workers :
        /\ variant = "plain"
        /\ wk[w].pc = "emit"
        /\ wk[w].r.acted
        /\ wk[w].existingMsg # NoMsg
        /\ now - wk[w].existingMsg.last_notification = renotifyIntervalMinutes

\* ---- C9 ----------------------------------------------------------------
\* C9: in the plain build, a worker whose incident has no cached
\* NotificationRecord never skips it: whatever the interval and the time,
\* the decision is to notify, the worker goes straight to the send, and its
\* result is "notified", or an error when the send or the save of the
\* snapshot file failed.
C9_NoRecordNeverWaits ==
    /\ pc = "idle" =>
         \A i \in 0..(MaxTime + 1) : ShouldRenotifyFromCache(NoMsg, i, now)
    /\ \A w \in Workers :
        (/\ variant = "plain"
         /\ Decided(w)
         /\ wk[w].existingMsg = NoMsg) =>
            /\ ~wk[w].r.skipped
            /\ wk[w].pc \in {"send", "upsertMsg", "emit"}
            /\ wk[w].pc = "emit" => wk[w].r.acted \/ wk[w].r.hasError
            /\ (wk[w].pc = "emit" /\ ~wk[w].r.hasError) =>
                  \E m \in trace.sent : /\ m.key = wk[w].incident.Key
                                        /\ m.assignee = wk[w].incident.Assignee
                                        /\ m \in discord

\* An incident without a record is notified although the interval has not
\* passed since the start (the clock reads less than the interval).
C9_Witness ==
    \E w \in Workers :
        /\ variant = "plain"
        /\ wk[w].pc = "emit"
        /\ wk[w].existingMsg = NoMsg
        /\ wk[w].r.acted
        /\ now < renotifyIntervalMinutes

\* ---- C10 ---------------------------------------------------------------
\* C10 (as claimed, and here for the incidents whose pair the engine has
\* met in an earlier cycle): in the evaluation build, an incident of the
\* snapshot without a NotificationRecord for its pair is never skipped,
\* whatever its EvaluationRecord.
C10_FirstNotify ==
    \A w \in Workers :
        (/\ variant = "eval"
         /\ wk[w].pc # "idle"
         /\ ~cacheFailed.msg
         /\ wk[w].existingMsg = NoMsg
         /\ IncidentExists(files, wk[w].incident.Key, wk[w].incident.Assignee))
            => ~wk[w].r.skipped

\* ---- C11 ---------------------------------------------------------------
\* C11: in the evaluation build, a worker whose incident has a cached
\* EvaluationRecord of another second and a NotificationRecord, however
\* recent its last-notification time, never skips it: the incident goes to
\* the evaluator and then to the send, and its result is "evaluated" unless
\* the evaluation or the send itself failed.
C11_StaleBeatsInterval ==
    \A w \in Workers :
        (/\ variant = "eval"
         /\ wk[w].pc # "idle"
         /\ wk[w].existingMsg # NoMsg
         /\ wk[w].incident.Key \in DOMAIN evalCache
         /\ Unix(evalCache[wk[w].incident.Key]) # Unix(wk[w].incident.UpdatedDate))
        => LET key == wk[w].incident.Key IN
           /\ ~wk[w].r.skipped
           /\ wk[w].pc \in {"delete", "send", "upsertMsg", "upsertEval", "emit"}
                 => key \in trace.evalCalls
           /\ wk[w].pc \in {"upsertMsg", "upsertEval"}
                 => \E m \in trace.sent : m.key = key /\ m.id = wk[w].messageID
           /\ wk[w].pc = "emit" =>
                 \/ wk[w].r.acted /\ \E m \in trace.sent : m.key = key
                 \/ /\ wk[w].r.hasError
                    /\ <<"eval", key>> \in trace.failedCalls
                          \/ <<"send", key>> \in trace.failedCalls

\* A stale incident is re-notified although its NotificationRecord was
\* written at the very time the clock shows.
C11_Witness ==
    \E w \in Workers :
        /\ variant = "eval"
        /\ wk[w].pc = "emit"
        /\ wk[w].r.acted
        /\ wk[w].existingMsg # NoMsg
        /\ wk[w].existingMsg.last_notification = now
        /\ wk[w].incident.Key \in DOMAIN evalCache
        /\ Unix(evalCache[wk[w].incident.Key]) # Unix(wk[w].incident.UpdatedDate)

\* ---- C12 ---------------------------------------------------------------
\* No collaborator call of the cycle has failed so far: neither cache load,
\* no call of a worker, no call of the cleanup pass.
NoFailureInCycle ==
    /\ ~trace.fetchFailed
    /\ ~cacheFailed.msg /\ ~cacheFailed.eval
    /\ trace.failedCalls = {}
    /\ trace.cleanupRan => trace.cleanupStoreOk /\ trace.cleanupSinkOk

\* Nothing was known of the key when the cycle began: no file, no row, no
\* EvaluationRecord, no live message.
NeverSeen(key) ==
    /\ \A f \in trace.before.files : f[1] # key
    /\ \A row \in trace.before.db : row.incident_key # key
    /\ key \notin DOMAIN trace.before.evals
    /\ \A m \in trace.before.discord : m.key # key

\* C12 (scenario A): when a cycle whose snapshot is one never-seen incident
\* has ended and every collaborator call of it succeeded, the snapshot file
\* of the incident exists, exactly one message was sent for it and is live,
\* the store holds exactly one NotificationRecord for it, naming that
\* message, and the tally counts one new incident.
C12_ScenarioA ==
    (/\ CycleEnded
     /\ Len(incidents) = 1
     /\ NeverSeen(incidents[1].Key)
     /\ NoFailureInCycle)
    => LET inc == incidents[1]
           sentFor == {m \in trace.sent : m.key = inc.Key}
           rowsFor == {row \in db : row.incident_key = inc.Key}
       IN  /\ IncidentExists(files, inc.Key, inc.Assignee)
           /\ Cardinality(sentFor) = 1
           /\ sentFor \subseteq discord
           /\ Cardinality(rowsFor) = 1
           /\ \A row \in rowsFor : \A m \in sentFor :
                 /\ row.assignee = inc.Assignee
                 /\ row.message_id = m.id
                 /\ row.channel_id = m.channel
           /\ tally.new = 1
           /\ tally.errors = 0

\* Scenario A has run, in a deployment that already knows another incident.
C12_Witness ==
    /\ CycleEnded
    /\ Len(incidents) = 1
    /\ NeverSeen(incidents[1].Key)
    /\ NoFailureInCycle
    /\ trace.before.db # {}
    /\ tally.new = 1

\* ---- C13 ---------------------------------------------------------------
\* The cycle has left everything kept for the key as it was when it began:
\* its rows, its EvaluationRecord, its files and its live messages, and no
\* evaluation, send or sink delete was issued for it.
Untouched(key) ==
    /\ key \notin trace.evalCalls \cup trace.sendCalls \cup trace.deleteCalls
    /\ \A call \in {"save", "eval", "delete", "send", "upsertMsg", "upsertEval"} :
          <<call, key>> \notin trace.failedCalls
    /\ {row \in db : row.incident_key = key}
          = {row \in trace.before.db : row.incident_key = key}
    /\ (key \in DOMAIN evals) = (key \in DOMAIN trace.before.evals)
    /\ key \in DOMAIN evals => evals[key] = trace.before.evals[key]
    /\ {f \in files : f[1] = key} = {f \in trace.before.files : f[1] = key}
    /\ LiveFor(key) = {m \in trace.before.discord : m.key = key}

\* C13: a skipped incident causes no effect.  Its result carries skipped and
\* nothing else (neither new, nor acted, nor an error); from the decision to
\* the end of the cycle no evaluation, send, sink delete or store write has
\* happened for its key, and its NotificationRecord and EvaluationRecord are
\* those of the beginning of the cycle; when the cycle has ended the count of
\* skipped incidents is the number of incidents skipped.
C13_SkipNoEffect ==
    /\ \A w \in Workers :
          (wk[w].pc # "idle" /\ wk[w].r.skipped)
          => /\ wk[w].pc = "emit"
             /\ wk[w].r = [NoResult EXCEPT !.skipped = TRUE]
             /\ Untouched(wk[w].incident.Key)
    /\ \A key \in trace.skippedKeys :
          /\ Untouched(key)
          /\ key \notin trace.erroredKeys
    /\ tally.skipped <= Cardinality(trace.skippedKeys)
    /\ CycleEnded => tally.skipped = Cardinality(trace.skippedKeys)

\* A cycle has ended that skipped one incident and notified another.
C13_Witness ==
    /\ CycleEnded
    /\ trace.skippedKeys # {}
    /\ tally.skipped = 1
    /\ trace.sent # {}

\* ---- C14 ---------------------------------------------------------------
\* C14: a failed cache query does not abort the cycle.  The cache that failed
\* is empty: with GetMessagesByKeys failed no worker sees an existing
\* NotificationRecord (so none deletes an old message, and the plain build
\* skips nothing); with GetEvaluationsByKeys failed no worker sees an
\* EvaluationRecord (so the evaluation build skips nothing).  When the cycle
\* is over every incident was dispatched and its result read, the cleanup
\* pass has run and the summary is written; every incident decided without
\* the cache was sent to the evaluator (evaluation build) or to the send
\* (plain build, unless the save of its file failed).
C14_CacheFailureDegrades ==
    /\ cacheFailed.msg =>
          /\ messageCache = {}
          /\ \A w \in Workers : wk[w].existingMsg = NoMsg
          /\ trace.deleteCalls = {}
          /\ variant = "plain" =>
                /\ \A w \in Workers : ~wk[w].r.skipped
                /\ trace.skippedKeys = {}
    /\ cacheFailed.eval =>
          /\ evalCache = << >>
          /\ \A w \in Workers : ~wk[w].r.skipped
          /\ trace.skippedKeys = {}
    /\ (pc = "done" /\ (cacheFailed.msg \/ cacheFailed.eval)) =>
          /\ trace.cleanupRan
          /\ summary.logged
          /\ trace.drained = Len(incidents)
          /\ cacheFailed.eval => KeysOf(incidents) \subseteq trace.evalCalls
          /\ (cacheFailed.msg /\ variant = "plain") =>
                \A key \in KeysOf(incidents) :
                    key \in trace.sendCalls \/ <<"save", key>> \in trace.failedCalls

\* A cycle whose cache query failed has ended, having notified an incident
\* that the cache, had it loaded, would have had a record of.
C14_Witness ==
    /\ CycleEnded
    /\ cacheFailed.msg \/ cacheFailed.eval
    /\ \E i \in 1..Len(incidents) :
          /\ incidents[i].Key \in trace.sendCalls
          /\ cacheFailed.msg =>
                \E row \in trace.before.db :
                    /\ row.incident_key = incidents[i].Key
                    /\ row.assignee = incidents[i].Assignee
          /\ cacheFailed.eval =>
                /\ incidents[i].Key \in DOMAIN trace.before.evals
                /\ Unix(trace.before.evals[incidents[i].Key])
                      = Unix(incidents[i].UpdatedDate)

\* ---- C15 ---------------------------------------------------------------
\* C15: a cycle whose fetch failed is over at once and has done nothing: no
\* cache was loaded, no job dispatched, no worker ran, no evaluation, send
\* or delete was issued, the cleanup pass did not run, no summary was
\* written, and both tables, the files and the channel are as they were when
\* the cycle began; the snapshot remembered is still the one before.
C15_FetchFailureAborts ==
    trace.fetchFailed =>
        /\ pc = "done"
        /\ CurrentStore = trace.before
        /\ lastKeys = trace.prevKeys
        /\ incidents = << >>
        /\ messageCache = {} /\ evalCache = << >>
        /\ jobs = << >> /\ results = << >> /\ enq = 0
        /\ \A w \in Workers : wk[w] = IdleWorker
        /\ trace.evalCalls = {} /\ trace.sendCalls = {} /\ trace.deleteCalls = {}
        /\ trace.sent = {}
        /\ ~trace.cleanupRan
        /\ trace.cleanupDeletes = EmptyBag
        /\ tally = ZeroTally
        /\ ~summary.logged

\* A fetch has failed in a deployment that holds records and live messages
\* of incidents seen before.
C15_Witness ==
    /\ trace.fetchFailed
    /\ db # {}
    /\ discord # {}
    /\ lastKeys # {}

\* ---- C16 ---------------------------------------------------------------
\* The incidents of the snapshot for which a save of the snapshot file, an
\* evaluation or a send failed in this cycle.
FailedKeys ==
    {key \in KeysOf(incidents) :
        \E call \in {"save", "eval", "send"} : <<call, key>> \in trace.failedCalls}

\* C16: when a cycle has ended, the incidents whose result carries the error
\* are exactly those for which the save of the snapshot file, the evaluation
\* or the send failed, the error count of the workers' results is their
\* number, every result was read, and the cleanup pass and the summary have
\* run.
C16_FailureCountedOnce ==
    CycleEnded =>
        /\ trace.erroredKeys = FailedKeys
        /\ summary.errors >= Cardinality(FailedKeys)
        /\ trace.drained = Len(incidents)
        /\ summary.logged

\* ---- C17 ---------------------------------------------------------------
\* C17: when a cycle has ended whose cleanup pass met a failure of the store
\* (the listing of the records, or the delete of a stale record), the error
\* is counted on top of the errors of the workers, so the summary is not OK;
\* the messages sent in the cycle are still live.
C17_CleanupFailureCounted ==
    (CycleEnded /\ ~trace.cleanupStoreOk) =>
        /\ ~summary.ok
        /\ summary.errors = Cardinality(trace.erroredKeys) + 1
        /\ trace.sent \subseteq discord

\* ---- C18 ---------------------------------------------------------------
\* The listing of the cleanup pass failed: the pass met a store failure
\* before it had listed any row.
ListingFailed == trace.cleanupRan /\ ~trace.cleanupStoreOk /\ trace.listed = {}

\* C18: the summary is written by the step that ends a cycle whose fetch
\* succeeded, and by no other: it is there exactly when such a cycle has
\* ended.  Its error count is the number of incidents whose result carries
\* an error, plus one when the cleanup pass returned an error, and it reads
\* OK exactly when that count is zero.
C18_SummaryStatus ==
    /\ summary.logged <=> (pc = "done" /\ ~trace.fetchFailed)
    /\ summary.logged <=> CycleEnded
    /\ summary.logged =>
          /\ summary.ok <=> (summary.errors = 0)
          /\ summary.errors = Cardinality(trace.erroredKeys) + One(ListingFailed)
          /\ summary.errors = tally.errors

\* A cycle has ended with the error of one incident in its summary.
C18_Witness ==
    /\ CycleEnded
    /\ summary.logged
    /\ ~summary.ok
    /\ summary.errors = 1
    /\ trace.erroredKeys # {}

\* ---- C19 ---------------------------------------------------------------
\* The cycle that has ended ran on the snapshot of the cycle before it, no
\* collaborator call has failed since the deployment began, and (plain
\* build) no NotificationRecord was due for a renotification.
RerunOfSuccess ==
    /\ CycleEnded
    /\ cycles >= 2
    /\ failures = 0
    /\ incidents = trace.prevSnap
    /\ variant = "plain" =>
          \A row \in trace.before.db :
              ~ShouldRenotifyFromCache(row, renotifyIntervalMinutes, now)

\* C19: a cycle that re-runs the snapshot of a fully successful cycle skips
\* every incident and issues no evaluation, no send and no sink delete; both
\* tables, the files and the live messages are as they were when it began.
C19_RerunIdempotent ==
    RerunOfSuccess =>
        /\ tally.skipped = Len(incidents)
        /\ trace.skippedKeys = KeysOf(incidents)
        /\ trace.evalCalls = {} /\ trace.sendCalls = {} /\ trace.deleteCalls = {}
        /\ trace.cleanupDeletes = EmptyBag
        /\ CurrentStore = trace.before


C21_CycleReturns ==
    /\ (pc # "idle") ~> (pc = "idle")
    /\ [](pc = "idle" /\ cycles < MaxCycles => ENABLED StartCycle)

\* A cycle in which a call failed has returned, and the loop waits for the
\* next tick.
C21_Witness ==
    /\ pc = "idle"
    /\ cycles >= 1
    /\ failures >= 1
    /\ files # {}

\* ---- C22 ---------------------------------------------------------------
\* C22: the snapshot file of a pair (key, assignee) is written at most once.
\* A cycle writes a file only for a pair that had none when the cycle
\* began, and once; no file that existed is removed or written again; a
\* worker reports its incident as new only if the pair had no file when the
\* cycle began.
C22_SnapshotWrittenOnce ==
    /\ \A pair \in BagToSet(trace.saves) :
          /\ CopiesIn(pair, trace.saves) = 1
          /\ pair \notin trace.before.files
          /\ pair \in files
    /\ trace.before.files \subseteq files
    /\ pc # "idle" => files \ trace.before.files \subseteq BagToSet(trace.saves)
    /\ \A w \in Workers :
          (wk[w].pc \notin {"idle", "save"} /\ wk[w].r.isNew)
          => <<wk[w].incident.Key, wk[w].incident.Assignee>> \notin trace.before.files
    /\ tally.new <= Cardinality({i \in 1..Len(incidents) :
                      <<incidents[i].Key, incidents[i].Assignee>>
                          \notin trace.before.files})

\* An incident whose file existed has been notified again in a cycle that
\* wrote no file and counted no new incident.
C22_Witness ==
    /\ CycleEnded
    /\ trace.saves = EmptyBag
    /\ tally.new = 0
    /\ \E i \in 1..Len(incidents) :
          /\ <<incidents[i].Key, incidents[i].Assignee>> \in trace.before.files
          /\ incidents[i].Key \in trace.sendCalls

\* ---- C23 ---------------------------------------------------------------
\* The worker has issued the send of its incident.
PastSend(w) == wk[w].pc \in {"upsertMsg", "upsertEval"}
                  \/ (wk[w].pc = "emit" /\ wk[w].incident.Key \in trace.sendCalls)

\* C23: a worker whose incident has a cached NotificationRecord issues the
\* send of the replacement only after the delete of the old message has
\* returned, and at no instant of its processing are two messages of the
\* incident live.
C23_DeleteBeforeSend ==
    \A w \in Workers :
        (wk[w].pc # "idle" /\ wk[w].existingMsg # NoMsg)
        => /\ (wk[w].pc = "send" \/ PastSend(w))
                 => wk[w].incident.Key \in trace.deleteCalls
           /\ wk[w].pc \in {"save", "eval", "delete"}
                 => wk[w].incident.Key \notin trace.sendCalls
           /\ Cardinality(LiveFor(wk[w].incident.Key)) <= 1

\* ---- C24 ---------------------------------------------------------------
\* The rows and the EvaluationRecord of the key are those of the beginning
\* of the cycle.
RecordsUntouched(key) ==
    /\ {row \in db : row.incident_key = key}
          = {row \in trace.before.db : row.incident_key = key}
    /\ (key \in DOMAIN evals) = (key \in DOMAIN trace.before.evals)
    /\ key \in DOMAIN evals => evals[key] = trace.before.evals[key]

\* C24: once the send for an incident has failed, no message is delivered
\* for it in this cycle (the send is not tried again), neither of its
\* records is written, and its worker goes straight to its result, which
\* carries the error and is neither acted nor skipped; when the result is
\* out the incident is among those counted as errors.
C24_SendFailureIsOneError ==
    \A key \in KeysOf(incidents) :
        <<"send", key>> \in trace.failedCalls
        => /\ \A m \in trace.sent : m.key # key
           /\ RecordsUntouched(key)
           /\ <<"upsertMsg", key>> \notin trace.failedCalls
           /\ <<"upsertEval", key>> \notin trace.failedCalls
           /\ \A w \in Workers :
                 (wk[w].pc # "idle" /\ wk[w].incident.Key = key)
                 => /\ wk[w].pc = "emit"
                    /\ wk[w].r.hasError /\ ~wk[w].r.acted /\ ~wk[w].r.skipped
                    /\ wk[w].messageID = 0
           /\ (\A w \in Workers : wk[w].incident.Key # key)
                 => key \in trace.erroredKeys
           /\ CycleEnded => summary.errors >= 1 /\ ~summary.ok

\* A cycle has ended in which the send for an incident with a
\* NotificationRecord failed.
C24_Witness ==
    /\ CycleEnded
    /\ \E key \in KeysOf(incidents) :
          /\ <<"send", key>> \in trace.failedCalls
          /\ \E row \in db : row.incident_key = key
    /\ summary.errors = 1

\* ---- C25 ---------------------------------------------------------------
\* Some row of the store names the message.
Tracked(m) ==
    \E row \in db : /\ row.incident_key = m.key
                    /\ row.channel_id = m.channel
                    /\ row.message_id = m.id

\* What holds in the cycle of the failed upsert: the message sent stays
\* live, and the result of the incident is acted, without an error.
UpsertFailureKeepsMessage ==
    \A key \in KeysOf(incidents) :
        (<<"upsertMsg", key>> \in trace.failedCalls
            \/ <<"upsertEval", key>> \in trace.failedCalls)
        => /\ \E m \in trace.sent : m.key = key /\ m \in discord
           /\ key \notin trace.erroredKeys
           /\ \A w \in Workers :
                 (wk[w].pc = "emit" /\ wk[w].incident.Key = key)
                 => wk[w].r.acted /\ ~wk[w].r.hasError

\* C25: a failed upsert after a successful send leaves the message live and
\* the incident reported as acted, not as an error; and no notification is
\* left untracked by it: when a later cycle in which every call succeeded
\* has ended, every live message of an incident of its snapshot is named by
\* a row of the store.
C25_UpsertFailureHarmless ==
    /\ UpsertFailureKeepsMessage
    /\ (CycleEnded /\ NoFailureInCycle) =>
          \A m \in discord : m.key \in KeysOf(incidents) => Tracked(m)

\* ---- C26 ---------------------------------------------------------------
\* C26: a worker whose delete of the old message failed goes on to the send
\* of the replacement; its result carries an error only if that send
\* failed, and once its UpsertMessage has succeeded the row of the pair names
\* the replacement, not the old message.  An incident whose delete failed is
\* counted as an error only if its send failed too.
C26_DeleteFailureGoesOn ==
    /\ \A w \in Workers :
          (wk[w].pc # "idle" /\ <<"delete", wk[w].incident.Key>> \in trace.failedCalls)
          => LET key == wk[w].incident.Key IN
             /\ wk[w].pc \in {"send", "upsertMsg", "upsertEval", "emit"}
             /\ wk[w].pc # "send" => key \in trace.sendCalls
             /\ wk[w].r.hasError => <<"send", key>> \in trace.failedCalls
             /\ (wk[w].pc = "emit" /\ ~wk[w].r.hasError) => wk[w].r.acted
             /\ (/\ wk[w].pc \in {"upsertEval", "emit"}
                 /\ ~wk[w].r.hasError
                 /\ <<"upsertMsg", key>> \notin trace.failedCalls)
                => /\ wk[w].messageID # wk[w].existingMsg.message_id
                   /\ \E row \in db :
                         /\ row.incident_key = key
                         /\ row.assignee = wk[w].incident.Assignee
                         /\ row.message_id = wk[w].messageID
    /\ \A key \in trace.erroredKeys :
          <<"delete", key>> \in trace.failedCalls
          => <<"send", key>> \in trace.failedCalls

\* A worker whose delete failed has sent the replacement and recorded it.
C26_Witness ==
    \E w \in Workers :
        /\ wk[w].pc = "emit"
        /\ <<"delete", wk[w].incident.Key>> \in trace.failedCalls
        /\ wk[w].r.acted
        /\ \E row \in db : /\ row.incident_key = wk[w].incident.Key
                           /\ row.message_id = wk[w].messageID

C28_CleanupAfterWorkers ==
    trace.cleanupRan =>
        /\ pc = "done"
        /\ jobs = << >> /\ jobsClosed
        /\ enq = Len(incidents)
        /\ \A w \in Workers : wk[w].pc = "idle"
        /\ resultsClosed /\ results = << >>
        /\ trace.drained = Len(incidents)
        /\ \A w \in Workers :
              ~ENABLED (TakeJob(w) \/ Save(w) \/ Evaluate(w) \/ DeleteOld(w)
                          \/ Send(w) \/ UpsertMsg(w) \/ UpsertEval(w) \/ Emit(w))

\* A cleanup pass has deleted a stale message in a cycle whose workers sent
\* a message.
C28_Witness ==
    /\ CycleEnded
    /\ Len(incidents) >= 1
    /\ trace.sent # {}
    /\ trace.cleanupDeletes # EmptyBag

\* ---- C29 ---------------------------------------------------------------
\* The workers that hold an incident.
Busy == {w \in Workers : wk[w].pc # "idle"}

\* C29: results is closed only when every worker has left its loop, so no
\* worker is about to send on the closed channel; every incident of the
\* snapshot is, at every instant, in exactly one place (not yet enqueued, in
\* jobs, with a worker, in results, or read by the drain loop); and when the
\* loop has ended every result was read and is in the tally.
C29_NoResultLost ==
    /\ resultsClosed =>
          /\ \A w \in Workers : Exited(w)
          /\ enq = Len(incidents)
    /\ \A w \in Workers : wk[w].pc = "emit" => ~resultsClosed
    /\ (pc # "idle" /\ ~trace.fetchFailed) =>
          (Len(incidents) - enq) + Len(jobs) + Cardinality(Busy)
              + Len(results) + trace.drained = Len(incidents)
    /\ CycleEnded =>
          /\ trace.drained = Len(incidents)
          /\ tally.skipped = Cardinality(trace.skippedKeys)
          /\ tally.errors = Cardinality(trace.erroredKeys) + One(ListingFailed)
          /\ variant = "eval" =>
                tally.acted + tally.skipped + Cardinality(trace.erroredKeys)
                    = Len(incidents)

\* The drain loop has read the results of two incidents, one of them an
\* error.
C29_Witness ==
    /\ CycleEnded
    /\ Len(incidents) = 2
    /\ trace.drained = 2
    /\ Cardinality(trace.erroredKeys) = 1

\* ---- C30 ---------------------------------------------------------------
\* C30: the pool has three workers in the evaluation build and five in the
\* plain build, whatever the snapshot, and the incidents being processed at
\* any instant are at most as many.
C30_BoundedParallelism ==
    LET W == IF variant = "eval" THEN 3 ELSE 5 IN
    /\ DOMAIN wk = 1..W
    /\ Cardinality(Busy) <= W
    /\ Len(jobs) + Cardinality(Busy) <= Len(incidents)

\* Every worker is busy and an incident of the snapshot waits in jobs.
C30_Witness ==
    /\ Cardinality(Busy) = numWorkers
    /\ jobs # << >>
    /\ Len(incidents) > numWorkers

\* ---- C31 ---------------------------------------------------------------
\* C31: neither channel ever holds more than the snapshot has incidents;
\* the producer that has an incident left can always enqueue it and can
\* close the queue once it has none left; a worker that has a result can
\* always send it, and a worker that holds an incident can always take its
\* next step; so until the cycle's tail some goroutine can always run, for
\* the empty snapshot and for one larger than the pool alike; and once the
\* queue is closed and empty every worker that waits for a job has left its
\* loop, and results can be closed as soon as all of them have.
C31_DispatchNeverBlocks ==
    /\ Len(jobs) <= Len(incidents)
    /\ Len(results) <= Len(incidents)
    /\ (pc = "produce" /\ enq < Len(incidents)) => ENABLED Enqueue
    /\ (pc = "produce" /\ enq = Len(incidents)) => ENABLED CloseJobs
    /\ \A w \in Workers :
          /\ wk[w].pc = "emit" => ENABLED Emit(w)
          /\ wk[w].pc \notin {"idle", "emit"} =>
                ENABLED PoolWorkerStep(w)
          /\ (wk[w].pc = "idle" /\ jobsClosed /\ jobs = << >>) => Exited(w)
    /\ (jobs # << >> /\ \E w \in Workers : wk[w].pc = "idle")
          => \E v \in Workers : ENABLED TakeJob(v)
    /\ (pc = "drain" /\ ~resultsClosed /\ \A w \in Workers : Exited(w))
          => ENABLED CloseResults
    /\ pc \in {"produce", "drain"} => ENABLED PoolStep

\* Every incident of a snapshot larger than the pool was enqueued and
\* handled, every worker has left its loop, and all the results wait in the
\* channel, none of them read yet.
C31_Witness ==
    /\ Len(incidents) > numWorkers
    /\ Len(results) = Len(incidents)
    /\ \A w \in Workers : Exited(w)
    /\ ~resultsClosed

\* ---- C32 ---------------------------------------------------------------
\* C32: from the start of a cycle to its return, the notification cache is
\* what GetMessagesByKeys gave on the store as it was when the cycle began
\* (empty if the query failed), and the evaluation cache is what
\* GetEvaluationsByKeys gave (empty if it failed, and in the plain build);
\* no step of a worker or of the cleanup pass changes either.  Every worker
\* holds the NotificationRecord the cache has for its incident, and in the
\* evaluation build has skipped its incident exactly if the cache says so,
\* whatever the other workers have written to the store since.
C32_CachesReadOnly ==
    (pc # "idle" /\ ~trace.fetchFailed) =>
        /\ messageCache =
              IF cacheFailed.msg THEN {}
              ELSE GetMessagesByKeys(trace.before.db, KeysOf(incidents))
        /\ evalCache =
              IF variant = "eval" /\ ~cacheFailed.eval
              THEN GetEvaluationsByKeys(trace.before.evals, KeysOf(incidents))
              ELSE << >>
        /\ \A w \in Workers :
              wk[w].pc # "idle" =>
                 /\ wk[w].existingMsg =
                       CacheLookup(messageCache, wk[w].incident.Key,
                                   wk[w].incident.Assignee)
                 /\ variant = "eval" =>
                       (wk[w].r.skipped <=> ~NeedsEval(evalCache, wk[w].incident))

\* A worker has just taken an incident and holds the record the cache has
\* for it, while the store, where another worker has replaced a record of
\* the snapshot since the cycle began, no longer gives what the cache holds.
C32_Witness ==
    \E w \in Workers :
        /\ wk[w].pc = "save"
        /\ wk[w].existingMsg # NoMsg
        /\ ~cacheFailed.msg
        /\ messageCache # GetMessagesByKeys(db, KeysOf(incidents))

\* ---- C33 ---------------------------------------------------------------
\* The row names the message: same incident, assignee, channel and id.
Names(row, m) ==
    /\ row.incident_key = m.key
    /\ row.assignee = m.assignee
    /\ row.channel_id = m.channel
    /\ row.message_id = m.id

\* C33: every row of the store carries the channel of its assignee and an
\* id given by the channel in some cycle so far; a row that was not in the
\* store when the cycle began names a message delivered in this cycle to
\* its (key, assignee), and its incident was neither skipped nor did its
\* evaluation or its send fail; the rows of an incident skipped or in error
\* are those of the beginning of the cycle.
C33_RecordOnlyAfterSend ==
    /\ \A row \in db :
          /\ HasChannel(row.assignee)
          /\ row.channel_id = Channels[row.assignee]
          /\ \E c \in 1..cycles : row.message_id = MessageId(c, row.incident_key)
    /\ pc # "idle" =>
          /\ \A row \in db \ trace.before.db :
                /\ \E m \in trace.sent : Names(row, m)
                /\ row.incident_key \notin trace.skippedKeys \cup trace.erroredKeys
                /\ <<"eval", row.incident_key>> \notin trace.failedCalls
                /\ <<"send", row.incident_key>> \notin trace.failedCalls
          /\ \A w \in Workers :
                (wk[w].pc # "idle" /\ (wk[w].r.skipped \/ wk[w].r.hasError))
                => {row \in db : row.incident_key = wk[w].incident.Key}
                      = {row \in trace.before.db :
                            row.incident_key = wk[w].incident.Key}
          /\ \A key \in trace.skippedKeys \cup trace.erroredKeys :
                {row \in db : row.incident_key = key}
                   = {row \in trace.before.db : row.incident_key = key}

\* A cycle has ended that replaced the record of a pair by the record of the
\* message it delivered, and left the record of an incident it skipped.
C33_Witness ==
    /\ CycleEnded
    /\ \E row \in db \ trace.before.db : \E old \in trace.before.db :
          /\ old.incident_key = row.incident_key
          /\ old.assignee = row.assignee
          /\ old.message_id # row.message_id
    /\ \E key \in trace.skippedKeys : \E row \in db : row.incident_key = key

\* ---- C34 ---------------------------------------------------------------
\* C34: main is either between two calls of syncIncidents (Idle), with no
\* worker, job, result or snapshot of a cycle left, or inside one call
\* (Running); while it is inside a call no cycle can start, whether a tick
\* waits in the ticker's channel or not, and at most one tick waits.
C34_OneCycleInFlight ==
    /\ pc \in {"idle", "produce", "drain", "done"}
    /\ pc = "idle" =>
          /\ \A w \in Workers : wk[w] = IdleWorker
          /\ jobs = << >> /\ results = << >>
          /\ ~jobsClosed /\ ~resultsClosed
          /\ incidents = << >>
          /\ enq = 0
          /\ trace = NoTrace
    /\ pc # "idle" =>
          /\ ~ENABLED StartCycleOnTick
          /\ ~ENABLED FetchFailsOnTick
          /\ cycles >= 1
    /\ (pc = "idle" /\ ~AtCall) =>
          /\ ~ENABLED StartCycleOnTick
          /\ ~ENABLED FetchFailsOnTick

\* A tick has fired while the workers of a cycle are at work, and waits in
\* the channel; the cycle is not the last one followed.
C34_Witness ==
    /\ pc = "drain"
    /\ tickPending
    /\ cycles >= 1 /\ cycles < MaxCycles
    /\ \E w \in Workers : wk[w].pc # "idle"

\* ---- C35 ---------------------------------------------------------------
\* The incident of the snapshot with the key.
IncidentOf(key) ==
    incidents[CHOOSE i \in 1..Len(incidents) : incidents[i].Key = key]

\* A cycle that starts on the store as it is, loads its evaluation cache and
\* finds the incident in its snapshot again will evaluate it.
DueAgain(key) ==
    NeedsEval(GetEvaluationsByKeys(evals, {key}), IncidentOf(key))

\* What a failed evaluation leaves: no sink delete and no send was issued for
\* the incident, no upsert tried, its records and its live messages are
\* those of the beginning of the cycle, and its result carries the error and
\* nothing else but the new flag.
EvalFailureLeavesAll(key) ==
    /\ key \notin trace.deleteCalls \cup trace.sendCalls
    /\ <<"upsertMsg", key>> \notin trace.failedCalls
    /\ <<"upsertEval", key>> \notin trace.failedCalls
    /\ RecordsUntouched(key)
    /\ LiveFor(key) = {m \in trace.before.discord : m.key = key}
    /\ \A w \in Workers :
          (wk[w].pc # "idle" /\ wk[w].incident.Key = key)
          => /\ wk[w].pc = "emit"
             /\ wk[w].r.hasError /\ ~wk[w].r.acted /\ ~wk[w].r.skipped
             /\ wk[w].messageID = 0
    /\ (\A w \in Workers : wk[w].incident.Key # key) => key \in trace.erroredKeys
    /\ CycleEnded => summary.errors >= 1 /\ ~summary.ok

\* A worker of the evaluation build that is at the evaluation has issued no
\* sink delete and no send for its incident.
EvalBeforeDelete ==
    \A w \in Workers :
        wk[w].pc = "eval"
        => wk[w].incident.Key \notin trace.deleteCalls \cup trace.sendCalls

\* C35 (as claimed): the evaluation comes before the delete of the old
\* message; an incident whose evaluation failed is left as it was, counted
\* as an error, and is due again in the next cycle.
C35_Original ==
    /\ EvalBeforeDelete
    /\ \A key \in KeysOf(incidents) :
          <<"eval", key>> \in trace.failedCalls
          => EvalFailureLeavesAll(key) /\ DueAgain(key)

\* C35 (amended): the evaluation comes before the delete of the old message;
\* an incident whose evaluation failed is left as it was and counted as an
\* error, and it is due again in the next cycle provided the evaluation
\* cache of this cycle was loaded, so that the incident was due by the
\* EvaluationRecord of the store and not for want of the cache.
C35_EvalFailureLeavesAll ==
    /\ EvalBeforeDelete
    /\ \A key \in KeysOf(incidents) :
          <<"eval", key>> \in trace.failedCalls
          => /\ EvalFailureLeavesAll(key)
             /\ ~cacheFailed.eval => DueAgain(key)

\* A cycle has ended in which the evaluation of an incident with a record
\* and a live message failed, with the evaluation cache loaded.
C35_Witness ==
    /\ CycleEnded
    /\ ~cacheFailed.eval
    /\ \E key \in KeysOf(incidents) :
          /\ <<"eval", key>> \in trace.failedCalls
          /\ LiveFor(key) # {}
          /\ \E row \in db : row.incident_key = key
          /\ key \in DOMAIN evals
          /\ DueAgain(key)

\* ---- C36 ---------------------------------------------------------------
\* Exactly one of the flags skipped, evaluated (acted) and error is set.
OneFlag(r) == One(r.skipped) + One(r.acted) + One(r.hasError) = 1

\* The workers that hold the incident of the key.
Holders(key) == {w \in Workers : wk[w].pc # "idle" /\ wk[w].incident.Key = key}

\* C36: in a cycle whose fetch succeeded only incidents of the snapshot are
\* taken from jobs; each is taken at most once and has at most one result;
\* an incident taken and without its result yet is held by exactly one
\* worker, every other by none; the results sent are those waiting in the
\* channel and those read; once results is closed every incident was taken
\* once and has its one result.  In the evaluation build every result sent,
\* and the result of every worker about to send, has exactly one flag, and
\* when the cycle has ended skipped + evaluated + the errors of the
\* incidents is the length of the snapshot.
C36_OneResultPerIncident ==
    (pc # "idle" /\ ~trace.fetchFailed) =>
        /\ BagToSet(trace.taken) \subseteq KeysOf(incidents)
        /\ \A key \in KeysOf(incidents) :
              /\ CopiesIn(key, trace.taken) <= 1
              /\ CopiesIn(key, trace.emitted) <= CopiesIn(key, trace.taken)
              /\ Cardinality(Holders(key))
                    = CopiesIn(key, trace.taken) - CopiesIn(key, trace.emitted)
        /\ \A w \in Workers : wk[w].pc # "idle" => wk[w].incident.Key \in KeysOf(incidents)
        /\ BagCardinality(trace.emitted) = Len(results) + trace.drained
        /\ resultsClosed =>
              \A key \in KeysOf(incidents) :
                  CopiesIn(key, trace.taken) = 1 /\ CopiesIn(key, trace.emitted) = 1
        /\ variant = "eval" =>
              /\ \A i \in 1..Len(results) : OneFlag(results[i])
              /\ \A w \in Workers : wk[w].pc = "emit" => OneFlag(wk[w].r)
        /\ (CycleEnded /\ variant = "eval") =>
              tally.skipped + tally.acted + (tally.errors - One(ListingFailed))
                  = Len(incidents)

\* A cycle of the evaluation build has ended that skipped one incident of
\* its snapshot and counted an error for the other.
C36_Witness ==
    /\ CycleEnded
    /\ variant = "eval"
    /\ Len(incidents) = 2
    /\ BagCardinality(trace.emitted) = 2
    /\ tally.skipped = 1
    /\ tally.errors - One(ListingFailed) = 1

\* ---- C37 ---------------------------------------------------------------
\* The cycle runs on a snapshot without incidents.
EmptyCycle == pc # "idle" /\ ~trace.fetchFailed /\ Len(incidents) = 0

\* In a cycle on the empty snapshot no cache query was issued (none failed,
\* both caches are empty), no job was enqueued or taken, no worker has held
\* an incident, no file was written, no evaluation, send or sink delete of a
\* worker was issued and no result counted; files and EvaluationRecords are
\* those of the beginning of the cycle.
EmptyCycleIdles ==
    EmptyCycle =>
        /\ ~cacheFailed.msg /\ ~cacheFailed.eval
        /\ messageCache = {} /\ evalCache = << >>
        /\ enq = 0 /\ jobs = << >> /\ results = << >>
        /\ \A w \in Workers : wk[w] = IdleWorker
        /\ trace.taken = EmptyBag /\ trace.emitted = EmptyBag
        /\ trace.saves = EmptyBag
        /\ trace.evalCalls = {} /\ trace.sendCalls = {} /\ trace.deleteCalls = {}
        /\ trace.failedCalls = {}
        /\ tally.new = 0 /\ tally.acted = 0 /\ tally.skipped = 0
        /\ files = trace.before.files
        /\ evals = trace.before.evals

\* C37 (as claimed): a cycle on the empty snapshot runs no per-incident
\* action and issues no cache query, and when it has ended the store holds
\* no NotificationRecord and a sink delete was issued for each record that
\* existed.
C37_Original ==
    /\ EmptyCycleIdles
    /\ (EmptyCycle /\ CycleEnded) =>
          /\ db = {}
          /\ \A row \in trace.before.db :
                CopiesIn(<<row.channel_id, row.message_id>>, trace.cleanupDeletes) = 1

\* C37 (amended): a cycle on the empty snapshot runs no per-incident action
\* and issues no cache query; if the listing of its cleanup pass succeeds,
\* the pass lists every record that existed, issues one sink delete for
\* each, and leaves in the store exactly the records whose store delete
\* failed, none if all succeeded; if the listing fails the store is left as
\* it was and no sink delete is issued.
C37_EmptySnapshotClearsAll ==
    /\ EmptyCycleIdles
    /\ (EmptyCycle /\ CycleEnded /\ ~ListingFailed) =>
          /\ trace.listed = trace.before.db
          /\ \A row \in trace.before.db :
                CopiesIn(<<row.channel_id, row.message_id>>, trace.cleanupDeletes) = 1
          /\ db = trace.cleanupStoreFailed
          /\ trace.cleanupStoreOk => db = {}
    /\ (EmptyCycle /\ CycleEnded /\ ListingFailed) =>
          /\ db = trace.before.db
          /\ discord = trace.before.discord
          /\ trace.cleanupDeletes = EmptyBag

\* A cycle on the empty snapshot has ended in a deployment that held the
\* records of two incidents: both were listed, and the store is empty.
C37_Witness ==
    /\ EmptyCycle
    /\ CycleEnded
    /\ Cardinality(trace.before.db) = 2
    /\ trace.listed = trace.before.db
    /\ db = {}

\* ---- C38 ---------------------------------------------------------------
\* What the cycle was given: the caches as the queries gave them on the store
\* of the beginning of the cycle.
GivenMessageCache ==
    IF cacheFailed.msg THEN {}
    ELSE GetMessagesByKeys(trace.before.db, KeysOf(incidents))
GivenEvalCache ==
    IF variant = "eval" /\ ~cacheFailed.eval
    THEN GetEvaluationsByKeys(trace.before.evals, KeysOf(incidents))
    ELSE << >>

\* The call of the incident failed (fixed outcome of the collaborator).
CallFailed(call, inc) == <<call, inc.Key>> \in trace.failedCalls
GivenNew(inc) == <<inc.Key, inc.Assignee>> \notin trace.before.files

\* The result of an incident as a function of what the cycle was given and of
\* the outcomes of the calls made for it: "skipped", "error" or "acted".
OutcomeOf(inc) ==
    IF variant = "eval"
    THEN IF ~NeedsEval(GivenEvalCache, inc) THEN "skipped"
         ELSE IF CallFailed("eval", inc) \/ CallFailed("send", inc) THEN "error"
         ELSE "acted"
    ELSE IF GivenNew(inc) /\ CallFailed("save", inc) THEN "error"
         ELSE IF ~ShouldRenotifyFromCache(
                     CacheLookup(GivenMessageCache, inc.Key, inc.Assignee),
                     renotifyIntervalMinutes, now) THEN "skipped"
         ELSE IF CallFailed("send", inc) THEN "error"
         ELSE "acted"

IncidentsWith(outcome) ==
    {i \in 1..Len(incidents) : OutcomeOf(incidents[i]) = outcome}

\* The pairs with a NotificationRecord at the end of the cycle: those of the
\* beginning and those of the incidents notified whose upsert succeeded,
\* less the stale ones the cleanup pass removed.
ExpectedPairs ==
    LET pairOf(row) == <<row.incident_key, row.assignee>>
        had == {pairOf(row) : row \in trace.before.db}
        written == {<<incidents[i].Key, incidents[i].Assignee>> :
                      i \in {j \in IncidentsWith("acted") :
                                ~CallFailed("upsertMsg", incidents[j])}}
        kept == {pairOf(row) : row \in trace.cleanupStoreFailed}
    IN  IF ListingFailed THEN had \cup written
        ELSE {p \in had \cup written : p[1] \in KeysOf(incidents)} \cup kept

\* The keys with an EvaluationRecord at the end of the cycle.
ExpectedEvalKeys ==
    DOMAIN trace.before.evals
       \cup {incidents[i].Key :
               i \in {j \in IncidentsWith("acted") :
                        variant = "eval" /\ ~CallFailed("upsertEval", incidents[j])}}

\* The counts at the end of the cycle.
ExpectedTally ==
    [new |-> Cardinality({i \in 1..Len(incidents) :
                 /\ GivenNew(incidents[i])
                 /\ variant = "eval" => OutcomeOf(incidents[i]) # "skipped"}),
     acted |-> Cardinality({i \in IncidentsWith("acted") :
                 variant = "plain" => ~GivenNew(incidents[i])}),
     skipped |-> Cardinality(IncidentsWith("skipped")),
     errors |-> Cardinality(IncidentsWith("error")) + One(ListingFailed)]

\* C38: when a cycle has ended, the pairs with a NotificationRecord, the
\* keys with an EvaluationRecord and the counts are those that the snapshot,
\* the store of the beginning of the cycle and the outcomes of the calls
\* made for each incident determine: the same for every interleaving of the
\* workers and every assignment of the incidents to them.
C38_InterleavingIndependent ==
    CycleEnded =>
        /\ {<<row.incident_key, row.assignee>> : row \in db} = ExpectedPairs
        /\ DOMAIN evals = ExpectedEvalKeys
        /\ tally = ExpectedTally

\* A cycle has ended in a deployment that held records, and both incidents
\* of its snapshot were notified.
C38_Witness ==
    /\ CycleEnded
    /\ Len(incidents) = 2
    /\ IncidentsWith("acted") = {1, 2}
    /\ Cardinality(trace.sent) = 2
    /\ trace.before.db # {}

\* ---- C39 ---------------------------------------------------------------
\* No upsert of the cycle has failed.
UpsertsSucceeded ==
    \A key \in KeysOf(incidents) :
        /\ <<"upsertMsg", key>> \notin trace.failedCalls
        /\ <<"upsertEval", key>> \notin trace.failedCalls

\* C39 (as claimed): when a cycle in which every store upsert succeeded has
\* ended, each NotificationRecord of an incident of the snapshot names the
\* message delivered for its pair in this cycle, if one was, and never a
\* message that the engine has deleted: its message is live.
C39_RecordNamesLatest ==
    (CycleEnded /\ UpsertsSucceeded) =>
        \A row \in db :
            row.incident_key \in KeysOf(incidents) =>
                /\ \A m \in trace.sent :
                      (m.key = row.incident_key /\ m.assignee = row.assignee)
                      => Names(row, m)
                /\ IsLive(discord, row.channel_id, row.message_id)

\* ---- C40 ---------------------------------------------------------------
\* The stale records a cycle found in the store when it began: those of the
\* incidents that are not in its snapshot.
StaleAtStart == Stale(trace.before.db, KeysOf(incidents))

\* The cleanup pass of the cycle has taken the record: it listed it, issued
\* its sink delete and called its store delete, which removed it unless
\* that call failed.
Attempted(row) ==
    /\ row \in trace.listed
    /\ CopiesIn(<<row.channel_id, row.message_id>>, trace.cleanupDeletes) >= 1
    /\ (row \in db) = (row \in trace.cleanupStoreFailed)

\* The record a failed store delete of the previous cycle left behind.  The
\* previous snapshot was empty too; both incidents had been notified and no
\* message is live, so the pass of the previous cycle issued the sink
\* delete of both records; it removed one and left this one, which is all
\* the store held when this cycle began.
LeftBehind ==
    IF /\ cycles = MaxCycles + 1
       /\ pc # "idle"
       /\ incidents = << >>
       /\ trace.prevKeys = {}
       /\ DOMAIN trace.before.evals = Keys
       /\ trace.before.discord = {}
       /\ Cardinality(trace.before.db) = 1
    THEN trace.before.db
    ELSE {}

\* What the pass of a cycle does whatever fails in it: a record whose store
\* delete failed is still in the store, untouched; only stale records are
\* taken; and until the pass runs the stale records are left as the cycle
\* found them.
FailuresKeepRecords ==
    /\ CycleEnded =>
          /\ trace.cleanupStoreFailed \subseteq StaleAtStart \cap db
          /\ trace.cleanupSinkFailed \subseteq StaleAtStart
    /\ (pc \in {"produce", "drain"} /\ ~trace.fetchFailed) =>
          StaleAtStart \subseteq db

\* C40 (as claimed): a failed delete does not stop the cleanup pass: every
\* other stale record is attempted in the same pass, and a record whose
\* store delete failed stays in the store and is attempted again by the
\* cleanup pass of the next cycle.
C40_Original ==
    /\ FailuresKeepRecords
    /\ (CycleEnded /\ ~ListingFailed) => \A row \in StaleAtStart : Attempted(row)
    /\ CycleEnded => \A row \in LeftBehind : Attempted(row)

\* C40 (amended): a failed delete does not stop the cleanup pass.  When a
\* cycle has ended whose cleanup pass listed the records, every record that
\* was stale when the cycle began was attempted, whichever deletes failed
\* for the other records, and it is gone from the store unless its own
\* store delete failed; a record whose store delete failed stays in the
\* store, and it is attempted again by the pass of the next cycle provided
\* that pass lists the records.
C40_FailureDoesNotStopPass ==
    /\ FailuresKeepRecords
    /\ (CycleEnded /\ ~ListingFailed) =>
          /\ \A row \in StaleAtStart : Attempted(row)
          /\ \A row \in LeftBehind : Attempted(row)

\* The second of two cleanup passes on an empty snapshot has ended: the
\* first one removed the record of one incident while the store delete of
\* the other record failed; this pass attempted that record again and
\* deleted it.
C40_Witness ==
    /\ CycleEnded
    /\ \E row \in LeftBehind : Attempted(row) /\ row \notin db

=============================================================================
